---- MODULE Spec2Model ----
(***************************************************************************)
(* Model of the dataflow-server content backend: the category hierarchy    *)
(* service and the blog post service, each over the relational store they  *)
(* persist to.  The store is the PostgreSQL database of app/core/config.py *)
(* (foreign keys and unique constraints enforced, serial primary keys).    *)
(* An action is one whole request, except in the sections on requests in  *)
(* flight, where a request advances from one await to the next.  A row     *)
(* carries the columns the services decide on (slug, parent, author,       *)
(* status, published_at, category) and a category its description; the     *)
(* other free-text columns (titles, SEO metadata) are left out, and the    *)
(* text of a post is followed in the round-trip requests only.             *)
(***************************************************************************)
EXTENDS Integers, FiniteSets, Sequences, TLC

(***************************************************************************)
(* Bounds of the model.                                                    *)
(***************************************************************************)
MaxCategoryId == 2
MaxPostId == 2
MaxClusterId == 2
MaxCommentId == 2
MaxLikeId == 2
MaxViewId == 1

(***************************************************************************)
(* Python values.  An Optional[int] that is None is NoneInt, an            *)
(* Optional[str] that is None is NoneStr; a field that the request body    *)
(* does not carry at all (pydantic "unset") is UnsetInt / UnsetStr.        *)
(***************************************************************************)
NoneInt == 0 - 1
UnsetInt == 0 - 2
NoneStr == "<None>"
UnsetStr == "<unset>"

\* Python truthiness of an Optional[int]: None and 0 are falsy.
TruthyInt(x) == x # NoneInt /\ x # 0

\* Python truthiness of an Optional[str]: None and "" are falsy.
TruthyStr(s) == s # NoneStr /\ s # ""

(***************************************************************************)
(* Input domains.                                                          *)
(***************************************************************************)
CategoryNames == {"Backend"}
CategorySlugs == {"backend", "python-backend"}
\* ids a request may name: 0, every id the sequence can hand out
RequestCategoryIds == 0..MaxCategoryId

UserEmails == {"a@b.com"}
\* the author a request is made as: the registered user, or someone else
RequestAuthorIds == {1, 2}

\* slugs BlogPostCreate accepts (min_length=1), and the ones BlogPostUpdate
\* accepts (any string)
PostSlugs == {"x", "y"}
PostUpdateSlugs == PostSlugs \cup {""}
RequestPostIds == 0..MaxPostId
\* the category references the post requests carry
CreatePostCategoryIds == {NoneInt, 1}
UpdatePostCategoryIds == {UnsetInt, NoneInt, 1}

VARIABLES
    categories,          \* table categories: id -> row
    categories_seq,      \* last value handed out by categories_id_seq
    users,               \* table users: id -> row
    users_seq,           \* last value handed out by users_id_seq
    posts,               \* table blog_posts: id -> row
    posts_seq,           \* last value handed out by blog_posts_id_seq
    clock,               \* the store's / server's clock, in ticks
    topic_clusters,      \* table topic_clusters: id -> row
    topic_clusters_seq,  \* last value handed out by topic_clusters_id_seq
    comments,            \* table comments: id -> row
    comments_seq,        \* last value handed out by comments_id_seq
    likes,               \* table likes: id -> row
    likes_seq,           \* last value handed out by likes_id_seq
    post_views,          \* table post_views: id -> row
    post_views_seq,      \* last value handed out by post_views_id_seq
    requests,            \* the requests in flight: id -> position and data
    sessions,            \* the requests whose AsyncSession is open
    BCRYPT_AVAILABLE,    \* whether "from bcrypt import ..." succeeded
    response             \* the response of the last request

categoryVars == <<categories, categories_seq>>
userVars == <<users, users_seq>>
postVars == <<posts, posts_seq, clock>>
clusterVars == <<topic_clusters, topic_clusters_seq>>
commentVars == <<comments, comments_seq>>
likeVars == <<likes, likes_seq>>
viewVars == <<post_views, post_views_seq>>
requestVars == <<requests, sessions>>
\* the requests together with the installation's password scheme
envVars == <<requestVars, BCRYPT_AVAILABLE>>
\* the tables and requests that the category, user and post services do not
\* touch
restVars == <<clusterVars, commentVars, likeVars, viewVars, envVars>>

vars == <<categoryVars, userVars, postVars, restVars, response>>

NoResponse == [op |-> "none", status |-> 0]

\* the fields of a request as the history of requests keeps them: a record
\* of its own, built from the request's fields
Sent(data) ==
    [f \in DOMAIN data |-> data[f]]

\* data.<f> of a parsed request for a field the schema declares with a
\* default: the value the body carries, or the default when the body has no
\* such field
Field(data, f, default) ==
    IF f \in DOMAIN data THEN data[f] ELSE default

\* Model(**data): the columns the dict names, the others at their default
Row_from_dict(defaults, data) ==
    [f \in DOMAIN defaults |-> IF f \in DOMAIN data THEN data[f] ELSE defaults[f]]

\* .offset(skip).limit(limit) of a query that has no ORDER BY: the store
\* may return any limit-sized part of what is left after skipping
Page(matching, skip, limit) ==
    LET left == IF Cardinality(matching) > skip
                THEN Cardinality(matching) - skip ELSE 0
        size == IF left < limit THEN left ELSE limit
    IN {S \in SUBSET matching : Cardinality(S) = size}

(***************************************************************************)
(* CategoryRepository: the queries.                                        *)
(***************************************************************************)

\* select(Category).where(Category.id == category_id) ... first(): the id
\* of the row found, or None.
Category_get_by_id(cats, category_id) ==
    IF category_id \in DOMAIN cats THEN category_id ELSE NoneInt

\* get_children that filters on the id column
Category_get_children_ById(cats, category_id) ==
    {c \in DOMAIN cats : c = category_id}

\* select(Category).where(Category.parent_id == category_id)
Category_get_children(cats, category_id) ==
    {c \in DOMAIN cats : cats[c].parent_id = category_id}

\* a children check that leaves the category itself out
Category_has_children_Others(cats, category_id) ==
    Category_get_children(cats, category_id) \ {category_id} # {}

\* "if children:" of delete_category, on the result of get_children
Category_has_children(cats, category_id) ==
    Category_get_children(cats, category_id) # {}

\* get_all: where(Category.parent_id.is_(None)), the top-level categories
Category_get_all(cats) ==
    {c \in DOMAIN cats : cats[c].parent_id = NoneInt}

\* slug_exists that finds nothing
Category_slug_exists_Never(cats, slug, exclude_id) ==
    FALSE

\* slug_exists that filters on the name column
Category_slug_exists_ByName(cats, slug, exclude_id) ==
    \E c \in DOMAIN cats :
        /\ cats[c].name = slug
        /\ (TruthyInt(exclude_id) => c # exclude_id)

\* where(Category.slug == slug), and where(Category.id != exclude_id) only
\* "if exclude_id:".
Category_slug_exists(cats, slug, exclude_id) ==
    \E c \in DOMAIN cats :
        /\ cats[c].slug = slug
        /\ (TruthyInt(exclude_id) => c # exclude_id)

(***************************************************************************)
(* The categories table: its constraints, checked by the store at commit.  *)
(***************************************************************************)

\* name and slug are nullable=False
Category_not_null_ok(row) ==
    row.name # NoneStr /\ row.slug # NoneStr

\* a slug column without its unique constraint
Category_unique_ok_Off(cats, id, row) ==
    TRUE

\* slug is unique=True: no other row holds the slug
Category_unique_ok(cats, id, row) ==
    \A c \in DOMAIN cats \ {id} : cats[c].slug # row.slug

\* a foreign key with a check that refuses a row that is its own parent
Category_fk_ok_NoSelf(cats, id, row) ==
    row.parent_id = NoneInt \/ row.parent_id \in (DOMAIN cats \ {id})

\* parent_id is ForeignKey("categories.id"): null, or the id of a row of the
\* table as it is after the statement (a row may reference itself).
Category_fk_ok(cats, id, row) ==
    row.parent_id = NoneInt \/ row.parent_id \in (DOMAIN cats \cup {id})

\* a table whose parent_id is not a foreign key
Category_constraints_ok_NoFk(cats, id, row) ==
    /\ Category_not_null_ok(row)
    /\ Category_unique_ok(cats, id, row)

Category_constraints_ok(cats, id, row) ==
    /\ Category_not_null_ok(row)
    /\ Category_unique_ok(cats, id, row)
    /\ Category_fk_ok(cats, id, row)

\* the table with row id set to row
PutRow(table, id, row) ==
    [i \in DOMAIN table \cup {id} |-> IF i = id THEN row ELSE table[i]]

\* the table without row id
DropRow(table, id) ==
    [i \in DOMAIN table \ {id} |-> table[i]]

\* ON DELETE SET NULL of blog_posts.category_id
Posts_category_set_null(ps, category_id) ==
    [p \in DOMAIN ps |->
        IF ps[p].category_id = category_id
        THEN [ps[p] EXCEPT !.category_id = NoneInt]
        ELSE ps[p]]

(***************************************************************************)
(* CategoryService.                                                        *)
(***************************************************************************)

\* Category(name=data.name, slug=data.slug, description=data.description,
\* parent_id=data.parent_id); description defaults to None
Category_init(data) ==
    [name |-> data.name, slug |-> data.slug,
     description |-> Field(data, "description", NoneStr),
     parent_id |-> data.parent_id]

\* data: [name, slug, parent_id] and possibly description (CategoryCreate;
\* name and slug are required non-empty strings, description is
\* Optional[str], parent_id is Optional[int]).
create_category(data) ==
    IF Category_slug_exists(categories, data.slug, NoneInt)
    THEN /\ response' = [op |-> "create_category", status |-> 409,
                         id |-> NoneInt, slug |-> data.slug,
                         parent_id |-> data.parent_id]
         /\ UNCHANGED <<categoryVars, userVars, postVars, restVars>>
    ELSE IF TruthyInt(data.parent_id)
            /\ Category_get_by_id(categories, data.parent_id) = NoneInt
    THEN /\ response' = [op |-> "create_category", status |-> 404,
                         id |-> NoneInt, slug |-> data.slug,
                         parent_id |-> data.parent_id]
         /\ UNCHANGED <<categoryVars, userVars, postVars, restVars>>
    ELSE \* CategoryRepository.create: INSERT, commit
         LET id == categories_seq + 1
             row == Category_init(data)
         IN /\ categories_seq < MaxCategoryId
            /\ categories_seq' = id
            /\ IF Category_constraints_ok(categories, id, row)
               THEN /\ categories' = PutRow(categories, id, row)
                    /\ response' = [op |-> "create_category", status |-> 201,
                                    id |-> id, slug |-> data.slug,
                                    parent_id |-> data.parent_id,
                                    data |-> Sent(data)]
               ELSE \* IntegrityError, caught by "except Exception"
                    /\ categories' = categories
                    /\ response' = [op |-> "create_category", status |-> 500,
                                    id |-> NoneInt, slug |-> data.slug,
                                    parent_id |-> data.parent_id]
            /\ UNCHANGED <<userVars, postVars, restVars>>

\* the body is CategoryOut.model_validate(category)
get_category(category_id) ==
    /\ response' =
           IF Category_get_by_id(categories, category_id) = NoneInt
           THEN [op |-> "get_category", status |-> 404, id |-> category_id]
           ELSE [op |-> "get_category", status |-> 200, id |-> category_id,
                 body |-> categories[category_id]]
    /\ UNCHANGED <<categoryVars, userVars, postVars, restVars>>

\* an update that writes null to the parent_id the request did not set
Category_apply_update_ClearParent(row, data) ==
    [name |-> IF data.name = UnsetStr THEN row.name ELSE data.name,
     slug |-> IF data.slug = UnsetStr THEN row.slug ELSE data.slug,
     description |-> IF Field(data, "description", UnsetStr) = UnsetStr
                     THEN row.description ELSE data.description,
     parent_id |-> IF data.parent_id = UnsetInt THEN NoneInt
                   ELSE data.parent_id]

\* CategoryRepository.update: setattr for every field the request set
\* (model_dump(exclude_unset=True)), a None included.
Category_apply_update(row, data) ==
    [name |-> IF data.name = UnsetStr THEN row.name ELSE data.name,
     slug |-> IF data.slug = UnsetStr THEN row.slug ELSE data.slug,
     description |-> IF Field(data, "description", UnsetStr) = UnsetStr
                     THEN row.description ELSE data.description,
     parent_id |-> IF data.parent_id = UnsetInt THEN row.parent_id
                   ELSE data.parent_id]

\* The parent check of update_category: the request's parent_id, read
\* through pydantic, is None both when unset and when null.
Category_update_parent_missing(cats, row, parent_id) ==
    /\ parent_id # NoneInt /\ parent_id # UnsetInt
    /\ parent_id # row.parent_id
    /\ Category_get_by_id(cats, parent_id) = NoneInt

\* data: [name, slug, parent_id] and possibly description (CategoryUpdate),
\* each possibly unset.
update_category(category_id, data) ==
    LET resp(st) == [op |-> "update_category", status |-> st,
                     id |-> category_id, slug |-> data.slug,
                     parent_id |-> data.parent_id, data |-> Sent(data)]
    IN
    IF Category_get_by_id(categories, category_id) = NoneInt
    THEN /\ response' = resp(404)
         /\ UNCHANGED <<categoryVars, userVars, postVars, restVars>>
    ELSE LET category == categories[category_id] IN
    IF /\ data.slug # UnsetStr /\ TruthyStr(data.slug)
       /\ data.slug # category.slug
       /\ Category_slug_exists(categories, data.slug, category_id)
    THEN /\ response' = resp(400)
         /\ UNCHANGED <<categoryVars, userVars, postVars, restVars>>
    ELSE IF Category_update_parent_missing(categories, category, data.parent_id)
    THEN /\ response' = resp(404)
         /\ UNCHANGED <<categoryVars, userVars, postVars, restVars>>
    ELSE \* CategoryRepository.update: UPDATE, commit
         LET row == Category_apply_update(category, data) IN
         /\ IF Category_constraints_ok(categories, category_id, row)
            THEN /\ categories' = PutRow(categories, category_id, row)
                 /\ response' = resp(200)
            ELSE /\ categories' = categories
                 /\ response' = resp(500)
         /\ UNCHANGED <<categories_seq, userVars, postVars, restVars>>

delete_category(category_id) ==
    LET resp(st) == [op |-> "delete_category", status |-> st,
                     id |-> category_id,
                     subcategories |->
                         Cardinality(Category_get_children(categories, category_id))]
    IN
    IF Category_get_by_id(categories, category_id) = NoneInt
    THEN /\ response' = resp(404)
         /\ UNCHANGED <<categoryVars, userVars, postVars, restVars>>
    ELSE IF Category_has_children(categories, category_id)
    THEN /\ response' = resp(400)
         /\ UNCHANGED <<categoryVars, userVars, postVars, restVars>>
    ELSE \* CategoryRepository.delete: DELETE, commit
         /\ categories' = DropRow(categories, category_id)
         /\ posts' = Posts_category_set_null(posts, category_id)
         /\ response' = resp(200)
         /\ UNCHANGED <<categories_seq, userVars, posts_seq, clock, restVars>>

\* list_categories: a page of the top-level categories
list_categories(skip, limit) ==
    /\ \E ids \in Page(Category_get_all(categories), skip, limit) :
           response' = [op |-> "list_categories", status |-> 200,
                        skip |-> skip, limit |-> limit, ids |-> ids]
    /\ UNCHANGED <<categoryVars, userVars, postVars, restVars>>

(***************************************************************************)
(* The requests.                                                           *)
(***************************************************************************)
CreateCategory ==
    \E name \in CategoryNames, slug \in CategorySlugs,
       parent_id \in {NoneInt} \cup RequestCategoryIds :
        create_category([name |-> name, slug |-> slug, parent_id |-> parent_id])

GetCategory ==
    \E category_id \in RequestCategoryIds : get_category(category_id)

UpdateCategory ==
    \E category_id \in RequestCategoryIds,
       name \in {UnsetStr, NoneStr} \cup CategoryNames,
       slug \in {UnsetStr, NoneStr} \cup CategorySlugs,
       parent_id \in {UnsetInt, NoneInt} \cup RequestCategoryIds :
        update_category(category_id,
                        [name |-> name, slug |-> slug, parent_id |-> parent_id])

DeleteCategory ==
    \E category_id \in RequestCategoryIds : delete_category(category_id)

\* GET /categories with the default page, or a page of one
ListCategories ==
    \E skip \in {0, 1}, limit \in {1, 100} : list_categories(skip, limit)

\* the tables as create_all leaves them, and no request in flight
InitStore ==
    /\ categories = <<>>
    /\ categories_seq = 0
    /\ users = <<>>
    /\ users_seq = 0
    /\ posts = <<>>
    /\ posts_seq = 0
    /\ clock = 0
    /\ topic_clusters = <<>>
    /\ topic_clusters_seq = 0
    /\ comments = <<>>
    /\ comments_seq = 0
    /\ likes = <<>>
    /\ likes_seq = 0
    /\ post_views = <<>>
    /\ post_views_seq = 0
    /\ requests = <<>>
    /\ sessions = {}
    /\ response = NoResponse

\* an installation that has bcrypt
Init ==
    /\ InitStore
    /\ BCRYPT_AVAILABLE = TRUE

NextCategory ==
    \/ CreateCategory
    \/ GetCategory
    \/ UpdateCategory
    \/ DeleteCategory

SpecCategory == Init /\ [][NextCategory]_vars

\* PUT /categories/{id} that moves a category under a new parent
UpdateParent ==
    \E category_id \in RequestCategoryIds,
       name \in {UnsetStr, NoneStr},
       parent_id \in {NoneInt} \cup RequestCategoryIds :
        update_category(category_id,
                        [name |-> name, slug |-> UnsetStr,
                         parent_id |-> parent_id])

\* the requests that shape the hierarchy, and the top-level listing
NextHierarchy ==
    \/ CreateCategory
    \/ UpdateParent
    \/ DeleteCategory
    \/ ListCategories

SpecHierarchy == Init /\ [][NextHierarchy]_vars

(***************************************************************************)
(* Users: registration and login.                                          *)
(***************************************************************************)

\* hash_password: with bcrypt, hashpw under the salt that gensalt drew; the
\* hash carries the salt.  Without bcrypt, PBKDF2 under a salt that is the
\* SHA-256 of the password.  A digest is written as the tuple it was
\* computed from.
hash_password(password, salt) ==
    IF BCRYPT_AVAILABLE
    THEN [scheme |-> "bcrypt", salt |-> <<"gensalt", salt>>,
          digest |-> <<"hashpw", password, salt>>]
    ELSE [scheme |-> "pbkdf2_sha256", salt |-> <<"sha256", password>>,
          digest |-> <<"pbkdf2_hmac", password, <<"sha256", password>>>>]

\* verify_password: checkpw hashes the password under the salt of the stored
\* hash and compares; the PBKDF2 branch splits the stored hash, hashes the
\* password under its salt and compares the digests.
verify_password(password, hashed_password) ==
    IF BCRYPT_AVAILABLE
    THEN /\ hashed_password.scheme = "bcrypt"
         /\ hashed_password.digest = <<"hashpw", password, hashed_password.salt[2]>>
    ELSE /\ hashed_password.scheme = "pbkdf2_sha256"
         /\ hashed_password.digest = <<"pbkdf2_hmac", password, hashed_password.salt>>

\* a lookup by email that finds nothing
User_get_by_email_Never(us, email) ==
    NoneInt

\* select(User).where(User.email == email): the id of the row, or None
User_get_by_email(us, email) ==
    IF \E u \in DOMAIN us : us[u].email = email
    THEN CHOOSE u \in DOMAIN us : us[u].email = email
    ELSE NoneInt

\* email is unique=True
User_unique_ok(us, id, row) ==
    \A u \in DOMAIN us \ {id} : us[u].email # row.email

\* data: [email, password] (UserCreate); salt: the salt gensalt draws
create_user(data, salt) ==
    LET resp(st, id) == [op |-> "create_user", status |-> st, id |-> id,
                         email |-> data.email, password |-> data.password]
    IN
    IF User_get_by_email(users, data.email) # NoneInt
    THEN /\ response' = resp(400, NoneInt)
         /\ UNCHANGED <<categoryVars, userVars, postVars, restVars>>
    ELSE \* UserRepository.create: INSERT, commit; is_active takes the
         \* column default
         LET id == users_seq + 1
             row == [email |-> data.email,
                     password |-> hash_password(data.password, salt),
                     role |-> "admin", is_active |-> TRUE]
         IN /\ users_seq' = id
            /\ IF User_unique_ok(users, id, row)
               THEN /\ users' = PutRow(users, id, row)
                    /\ response' = resp(201, id)
               ELSE \* IntegrityError, not caught
                    /\ users' = users
                    /\ response' = resp(500, NoneInt)
            /\ UNCHANGED <<categoryVars, postVars, restVars>>

\* a check of the active flag that lets every account through
User_inactive_Never(user) ==
    FALSE

\* "not user.is_active"
User_inactive(user) ==
    ~user.is_active

authenticate_user(email, password) ==
    LET user_id == User_get_by_email(users, email)
        resp(st, detail, token) ==
            [op |-> "authenticate_user", status |-> st, detail |-> detail,
             access_token |-> token, email |-> email, password |-> password]
    IN
    /\ response' =
           IF user_id = NoneInt
           THEN resp(401, "Invalid email or password", NoneInt)
           ELSE IF ~verify_password(password, users[user_id].password)
           THEN resp(401, "Invalid email or password", NoneInt)
           ELSE IF User_inactive(users[user_id])
           THEN resp(403, "User account is inactive", NoneInt)
           ELSE resp(200, "", user_id)
    /\ UNCHANGED <<categoryVars, userVars, postVars, restVars>>

\* UserRepository.update(user, {"is_active": is_active}): the one way the
\* code has to change the active flag
User_update_is_active(user_id, is_active) ==
    /\ user_id \in DOMAIN users
    /\ users' = PutRow(users, user_id,
                       [users[user_id] EXCEPT !.is_active = is_active])
    /\ response' = [op |-> "User_update", status |-> 0, id |-> user_id]
    /\ UNCHANGED <<categoryVars, users_seq, postVars, restVars>>

(***************************************************************************)
(* The requests on users.                                                  *)
(***************************************************************************)
AccountEmails == {"a@b.com", "c@d.com"}
\* passwords UserCreate accepts (min_length=8)
Passwords == {"12345678", "87654321"}
\* the salts gensalt may draw
Salts == {1, 2}

RegisterAccount ==
    \E email \in AccountEmails, password \in Passwords, salt \in Salts :
        create_user([email |-> email, password |-> password], salt)

LoginUser ==
    \E email \in AccountEmails, password \in Passwords :
        authenticate_user(email, password)

SetUserActive ==
    \E user_id \in DOMAIN users, is_active \in BOOLEAN :
        User_update_is_active(user_id, is_active)

\* an installation with or without bcrypt
InitUser ==
    /\ InitStore
    /\ BCRYPT_AVAILABLE \in BOOLEAN

NextUser ==
    \/ RegisterAccount
    \/ LoginUser
    \/ SetUserActive

SpecUser == InitUser /\ [][NextUser]_vars

(***************************************************************************)
(* Request schemas of the blog posts.  A request body is a record of the   *)
(* fields slug, category_id, topic_cluster_id and status, each possibly     *)
(* unset.  Neither schema declares status, so parsing drops it.  A body    *)
(* that is followed with its text carries the field content as well.       *)
(***************************************************************************)
IntFields ==
    {"category_id", "topic_cluster_id", "author_id", "published_at",
     "parent_id", "pillar_post_id"}

IsNone(f, v) == IF f \in IntFields THEN v = NoneInt ELSE v = NoneStr
IsUnset(f, v) == IF f \in IntFields THEN v = UnsetInt ELSE v = UnsetStr

\* data.<f> of a parsed request: None when the body did not set the field
Attr(body, f) ==
    IF IsUnset(f, body[f])
    THEN (IF f \in IntFields THEN NoneInt ELSE NoneStr)
    ELSE body[f]

\* BlogPostCreate(...).model_dump(): every declared field, None when unset
BlogPostCreate_model_dump(body) ==
    [f \in {"slug", "category_id", "topic_cluster_id"}
            \cup ({"content"} \cap DOMAIN body) |-> Attr(body, f)]

\* a BlogPostUpdate that declares status too
BlogPostUpdate_model_dump_WithStatus(body) ==
    [f \in {g \in {"slug", "category_id", "topic_cluster_id", "status"} :
                ~IsUnset(g, body[g])}
        |-> body[f]]

\* BlogPostUpdate(...).model_dump(exclude_unset=True): the declared fields
\* that the body set
BlogPostUpdate_model_dump(body) ==
    [f \in {g \in {"slug", "category_id", "topic_cluster_id"} :
                ~IsUnset(g, body[g])}
        |-> body[f]]

(***************************************************************************)
(* BlogPostRepository: the queries.                                        *)
(***************************************************************************)

\* select(BlogPost).where(BlogPost.id == post_id): the id found, or None
BlogPost_get_by_id(ps, post_id) ==
    IF post_id \in DOMAIN ps THEN post_id ELSE NoneInt

\* select(BlogPost).where(BlogPost.slug == slug): the id found, or None
BlogPost_get_by_slug(ps, slug) ==
    IF \E p \in DOMAIN ps : ps[p].slug = slug
    THEN CHOOSE p \in DOMAIN ps : ps[p].slug = slug
    ELSE NoneInt

\* where(BlogPost.slug == slug), and where(BlogPost.id != exclude_id) only
\* "if exclude_id:"
BlogPost_slug_exists(ps, slug, exclude_id) ==
    \E p \in DOMAIN ps :
        /\ ps[p].slug = slug
        /\ (TruthyInt(exclude_id) => p # exclude_id)

\* where(BlogPost.status == "published"): the ids listed (the order, by
\* published_at descending, is not modelled)
BlogPost_get_published(ps) ==
    {p \in DOMAIN ps : ps[p].status = "published"}

\* where(status == "draft" and author_id == author_id): the ids listed
BlogPost_get_drafts(ps, author_id) ==
    {p \in DOMAIN ps : ps[p].status = "draft" /\ ps[p].author_id = author_id}

(***************************************************************************)
(* The blog_posts table: its constraints, checked by the store at commit.  *)
(***************************************************************************)

\* slug and author_id are nullable=False, and so are content_markdown and
\* content_html of a row that is followed with its text
BlogPost_not_null_ok(row) ==
    /\ row.slug # NoneStr
    /\ row.author_id # NoneInt
    /\ \A f \in DOMAIN row \cap {"content_markdown", "content_html"} :
           row[f] # NoneStr

\* slug is unique=True
BlogPost_unique_ok(ps, id, row) ==
    \A p \in DOMAIN ps \ {id} : ps[p].slug # row.slug

\* author_id references users.id; category_id references categories.id or
\* is null; topic_cluster_id references topic_clusters.id or is null
BlogPost_fk_ok(us, cats, cls, row) ==
    /\ row.author_id \in DOMAIN us
    /\ (row.category_id = NoneInt \/ row.category_id \in DOMAIN cats)
    /\ (row.topic_cluster_id = NoneInt \/ row.topic_cluster_id \in DOMAIN cls)

BlogPost_constraints_ok(ps, us, cats, cls, id, row) ==
    /\ BlogPost_not_null_ok(row)
    /\ BlogPost_unique_ok(ps, id, row)
    /\ BlogPost_fk_ok(us, cats, cls, row)

\* the mapped columns of BlogPost that a row can carry
BlogPost_columns ==
    {"slug", "category_id", "topic_cluster_id", "author_id", "status",
     "published_at", "content_markdown", "content_html"}

\* BlogPost(**data): the declarative constructor raises TypeError for a
\* keyword that is not an attribute of the mapped class
BlogPost_init_ok(data) ==
    DOMAIN data \subseteq BlogPost_columns

\* status has default="draft", the nullable columns default to null
BlogPost_defaults ==
    [slug |-> NoneStr, category_id |-> NoneInt, topic_cluster_id |-> NoneInt,
     author_id |-> NoneInt, status |-> "draft", published_at |-> NoneInt]

\* BlogPost(**data): the row the INSERT writes.  It carries the two text
\* columns when the dict names one of them.
BlogPost_init(data) ==
    LET base == Row_from_dict(BlogPost_defaults, data)
        text == {"content_markdown", "content_html"}
    IN IF DOMAIN data \cap text = {} THEN base
       ELSE [f \in DOMAIN base \cup text |->
                IF f \in text THEN Field(data, f, NoneStr) ELSE base[f]]

\* BlogPostOut.model_validate(post): BlogPostOut declares "content: str"
\* and reads it from the attribute of that name; the text of a row is in
\* content_markdown and content_html.
BlogPostOut_model_validate_ok(row) ==
    DOMAIN row \cap {"content_markdown", "content_html"} # {}
        => "content" \in DOMAIN row

\* the status of a response whose body is BlogPostOut.model_validate(post):
\* a ValidationError is not caught
BlogPostOut_status(st, row) ==
    IF BlogPostOut_model_validate_ok(row) THEN st ELSE 500

\* an update that writes the nulls of the request too
BlogPost_update_WithNone(row, data) ==
    [f \in DOMAIN row |-> IF f \in DOMAIN data THEN data[f] ELSE row[f]]

\* BlogPostRepository.update: setattr(post, key, value) for every key of
\* data whose value "is not None"
BlogPost_update(row, data) ==
    [f \in DOMAIN row |->
        IF f \in DOMAIN data /\ ~IsNone(f, data[f]) THEN data[f] ELSE row[f]]

\* BlogPostRepository.delete: "db.delete(post)" creates the coroutine of
\* AsyncSession.delete and never awaits it, so the session marks nothing as
\* deleted and the commit that follows writes nothing.
BlogPost_delete(ps, post_id) ==
    ps

(***************************************************************************)
(* What the store does to the rows that reference a deleted blog post.     *)
(* (post_analytics references blog_posts the same way; no code of the      *)
(* application writes that table.)                                         *)
(***************************************************************************)

\* the table restricted to the ids in keep
KeepRows(table, keep) ==
    [i \in DOMAIN table \cap keep |-> table[i]]

\* ON DELETE CASCADE of comments.post_id, and of comments.parent_id for the
\* replies to a comment that goes
RECURSIVE Comments_cascade(_, _)
Comments_cascade(cms, ps) ==
    LET keep == {c \in DOMAIN cms :
                    /\ cms[c].post_id \in DOMAIN ps
                    /\ (cms[c].parent_id = NoneInt \/ cms[c].parent_id \in DOMAIN cms)}
    IN IF keep = DOMAIN cms THEN cms
       ELSE Comments_cascade(KeepRows(cms, keep), ps)

\* ON DELETE CASCADE of likes.post_id and likes.comment_id
Likes_cascade(lks, ps, cms) ==
    KeepRows(lks, {l \in DOMAIN lks :
                      /\ (lks[l].post_id = NoneInt \/ lks[l].post_id \in DOMAIN ps)
                      /\ (lks[l].comment_id = NoneInt \/ lks[l].comment_id \in DOMAIN cms)})

\* ON DELETE CASCADE of post_views.post_id
PostViews_cascade(vs, ps) ==
    KeepRows(vs, {v \in DOMAIN vs : vs[v].post_id \in DOMAIN ps})

\* ON DELETE SET NULL of topic_clusters.pillar_post_id
Clusters_pillar_set_null(cls, ps) ==
    [c \in DOMAIN cls |->
        IF cls[c].pillar_post_id # NoneInt /\ cls[c].pillar_post_id \notin DOMAIN ps
        THEN [cls[c] EXCEPT !.pillar_post_id = NoneInt]
        ELSE cls[c]]

(***************************************************************************)
(* BlogPostService.                                                        *)
(***************************************************************************)

\* an author check that lets everyone through
BlogPost_not_author_Never(post, author_id) ==
    FALSE

\* "post.author_id != author_id"
BlogPost_not_author(post, author_id) ==
    post.author_id # author_id

\* a publish guard that lets every status through
BlogPost_not_draft_Never(post) ==
    FALSE

\* "post.status != 'draft'"
BlogPost_not_draft(post) ==
    post.status # "draft"

\* a slug lookup that serves every status
BlogPost_not_public_Never(post) ==
    FALSE

\* "post.status != 'published'"
BlogPost_not_public(post) ==
    post.status # "published"

\* post_data = data.model_dump(); post_data['author_id'] = author_id;
\* post_data['status'] = 'draft'.
create_post_data(data, author_id) ==
    [f \in DOMAIN data \cup {"author_id", "status"} |->
        IF f = "author_id" THEN author_id
        ELSE IF f = "status" THEN "draft"
        ELSE data[f]]

\* body: [slug, category_id, topic_cluster_id, status]
create_post(body, author_id) ==
    LET data == BlogPostCreate_model_dump(body)
        resp(st, id) == [op |-> "create_post", status |-> st, id |-> id,
                         author_id |-> author_id, slug |-> body.slug,
                         body |-> Sent(body)]
    IN
    IF BlogPost_slug_exists(posts, data.slug, NoneInt)
    THEN /\ response' = resp(409, NoneInt)
         /\ UNCHANGED <<categoryVars, userVars, postVars, restVars>>
    ELSE IF ~BlogPost_init_ok(create_post_data(data, author_id))
    THEN \* BlogPostRepository.create: TypeError of BlogPost(**data), not
         \* caught
         /\ response' = resp(500, NoneInt)
         /\ UNCHANGED <<categoryVars, userVars, postVars, restVars>>
    ELSE \* BlogPostRepository.create: INSERT, commit
         LET id == posts_seq + 1
             row == BlogPost_init(create_post_data(data, author_id))
         IN /\ posts_seq < MaxPostId
            /\ posts_seq' = id
            /\ IF BlogPost_constraints_ok(posts, users, categories, topic_clusters,
                                          id, row)
               THEN /\ posts' = PutRow(posts, id, row)
                    /\ response' = resp(201, id)
               ELSE \* IntegrityError, not caught
                    /\ posts' = posts
                    /\ response' = resp(500, NoneInt)
            /\ UNCHANGED <<categoryVars, userVars, clock, restVars>>

get_post(post_id) ==
    /\ response' =
           IF BlogPost_get_by_id(posts, post_id) = NoneInt
           THEN [op |-> "get_post", status |-> 404, id |-> post_id]
           ELSE IF ~BlogPostOut_model_validate_ok(posts[post_id])
           THEN [op |-> "get_post", status |-> 500, id |-> post_id]
           ELSE [op |-> "get_post", status |-> 200, id |-> post_id,
                 body |-> posts[post_id]]
    /\ UNCHANGED <<categoryVars, userVars, postVars, restVars>>

get_post_by_slug(slug) ==
    LET post_id == BlogPost_get_by_slug(posts, slug) IN
    /\ response' =
           IF post_id = NoneInt \/ BlogPost_not_public(posts[post_id])
           THEN [op |-> "get_post_by_slug", status |-> 404, slug |-> slug]
           ELSE IF ~BlogPostOut_model_validate_ok(posts[post_id])
           THEN [op |-> "get_post_by_slug", status |-> 500, slug |-> slug]
           ELSE [op |-> "get_post_by_slug", status |-> 200, slug |-> slug,
                 id |-> post_id, body |-> posts[post_id]]
    /\ UNCHANGED <<categoryVars, userVars, postVars, restVars>>

list_published ==
    /\ response' =
           IF \E p \in BlogPost_get_published(posts) :
                  ~BlogPostOut_model_validate_ok(posts[p])
           THEN [op |-> "list_published", status |-> 500, ids |-> {}]
           ELSE [op |-> "list_published", status |-> 200,
                 ids |-> BlogPost_get_published(posts)]
    /\ UNCHANGED <<categoryVars, userVars, postVars, restVars>>

list_drafts(author_id) ==
    /\ response' =
           IF \E p \in BlogPost_get_drafts(posts, author_id) :
                  ~BlogPostOut_model_validate_ok(posts[p])
           THEN [op |-> "list_drafts", status |-> 500,
                 author_id |-> author_id, ids |-> {}]
           ELSE [op |-> "list_drafts", status |-> 200,
                 author_id |-> author_id,
                 ids |-> BlogPost_get_drafts(posts, author_id)]
    /\ UNCHANGED <<categoryVars, userVars, postVars, restVars>>

\* body: [slug, category_id, topic_cluster_id, status], each possibly unset
update_post(post_id, body, author_id) ==
    LET update_data == BlogPostUpdate_model_dump(body)
        resp(st) == [op |-> "update_post", status |-> st, id |-> post_id,
                     author_id |-> author_id, slug |-> body.slug]
        \* the answer to an update that was written, with what it wrote
        done(st) == [op |-> "update_post", status |-> st, id |-> post_id,
                     author_id |-> author_id, slug |-> body.slug,
                     update_data |-> update_data]
    IN
    IF BlogPost_get_by_id(posts, post_id) = NoneInt
    THEN /\ response' = resp(404)
         /\ UNCHANGED <<categoryVars, userVars, postVars, restVars>>
    ELSE LET post == posts[post_id] IN
    IF BlogPost_not_author(post, author_id)
    THEN /\ response' = resp(403)
         /\ UNCHANGED <<categoryVars, userVars, postVars, restVars>>
    ELSE IF /\ TruthyStr(Attr(body, "slug"))
            /\ Attr(body, "slug") # post.slug
            /\ BlogPost_slug_exists(posts, Attr(body, "slug"), post_id)
    THEN /\ response' = resp(409)
         /\ UNCHANGED <<categoryVars, userVars, postVars, restVars>>
    ELSE \* BlogPostRepository.update: UPDATE, commit
         LET row == BlogPost_update(post, update_data) IN
         /\ IF BlogPost_constraints_ok(posts, users, categories, topic_clusters,
                                       post_id, row)
            THEN /\ posts' = PutRow(posts, post_id, row)
                 /\ response' = done(BlogPostOut_status(200, row))
            ELSE \* IntegrityError, not caught
                 /\ posts' = posts
                 /\ response' = resp(500)
         /\ UNCHANGED <<categoryVars, userVars, posts_seq, clock, restVars>>

\* a publication that leaves published_at alone
publish_post_data_StatusOnly(now) ==
    [status |-> "published"]

\* update_data = {"status": "published", "published_at": datetime.utcnow()}
publish_post_data(now) ==
    [status |-> "published", published_at |-> now]

publish_post(post_id, author_id) ==
    LET resp(st) == [op |-> "publish_post", status |-> st, id |-> post_id,
                     author_id |-> author_id]
    IN
    IF BlogPost_get_by_id(posts, post_id) = NoneInt
    THEN /\ response' = resp(404)
         /\ UNCHANGED <<categoryVars, userVars, postVars, restVars>>
    ELSE LET post == posts[post_id] IN
    IF BlogPost_not_author(post, author_id)
    THEN /\ response' = resp(403)
         /\ UNCHANGED <<categoryVars, userVars, postVars, restVars>>
    ELSE IF BlogPost_not_draft(post)
    THEN /\ response' = resp(400)
         /\ UNCHANGED <<categoryVars, userVars, postVars, restVars>>
    ELSE \* {"status": "published", "published_at": datetime.utcnow()}
         /\ clock' = clock + 1
         /\ posts' = PutRow(posts, post_id,
                            BlogPost_update(post, publish_post_data(clock')))
         /\ response' = resp(BlogPostOut_status(200, posts'[post_id]))
         /\ UNCHANGED <<categoryVars, userVars, posts_seq, restVars>>

delete_post(post_id, author_id) ==
    LET resp(st) == [op |-> "delete_post", status |-> st, id |-> post_id,
                     author_id |-> author_id]
    IN
    IF BlogPost_get_by_id(posts, post_id) = NoneInt
    THEN /\ response' = resp(404)
         /\ UNCHANGED <<categoryVars, userVars, postVars, restVars>>
    ELSE IF BlogPost_not_author(posts[post_id], author_id)
    THEN /\ response' = resp(403)
         /\ UNCHANGED <<categoryVars, userVars, postVars, restVars>>
    ELSE \* BlogPostRepository.delete, commit
         /\ posts' = BlogPost_delete(posts, post_id)
         /\ comments' = Comments_cascade(comments, posts')
         /\ likes' = Likes_cascade(likes, posts', comments')
         /\ post_views' = PostViews_cascade(post_views, posts')
         /\ topic_clusters' = Clusters_pillar_set_null(topic_clusters, posts')
         /\ response' = resp(204)
         /\ UNCHANGED <<categoryVars, userVars, posts_seq, clock,
                        topic_clusters_seq, comments_seq, likes_seq,
                        post_views_seq, envVars>>

(***************************************************************************)
(* The requests on users and blog posts.                                   *)
(***************************************************************************)
RegisterUser ==
    \E email \in UserEmails :
        create_user([email |-> email, password |-> "12345678"], 1)

CreatePost ==
    \E slug \in PostSlugs, category_id \in CreatePostCategoryIds,
       status \in {UnsetStr, "published"},
       author_id \in RequestAuthorIds :
        create_post([slug |-> slug, category_id |-> category_id,
                     topic_cluster_id |-> UnsetInt, status |-> status],
                    author_id)

GetPost ==
    \E post_id \in RequestPostIds : get_post(post_id)

GetPostBySlug ==
    \E slug \in PostSlugs : get_post_by_slug(slug)

ListPublished == list_published

ListDrafts ==
    \E author_id \in RequestAuthorIds : list_drafts(author_id)

UpdatePost ==
    \E post_id \in RequestPostIds,
       slug \in {UnsetStr} \cup PostUpdateSlugs,
       category_id \in UpdatePostCategoryIds,
       status \in {UnsetStr, "archived"},
       author_id \in RequestAuthorIds :
        update_post(post_id, [slug |-> slug, category_id |-> category_id,
                              topic_cluster_id |-> UnsetInt,
                              status |-> status], author_id)

PublishPost ==
    \E post_id \in RequestPostIds, author_id \in RequestAuthorIds :
        publish_post(post_id, author_id)

DeletePost ==
    \E post_id \in RequestPostIds, author_id \in RequestAuthorIds :
        delete_post(post_id, author_id)

NextPost ==
    \/ RegisterUser
    \/ CreatePost
    \/ GetPost
    \/ GetPostBySlug
    \/ ListPublished
    \/ ListDrafts
    \/ UpdatePost
    \/ PublishPost
    \/ DeletePost

SpecPost == Init /\ [][NextPost]_vars

(***************************************************************************)
(* TopicClusterRepository: the queries, and the table's constraints.       *)
(***************************************************************************)
ClusterNames == {"Guides"}
ClusterSlugs == {"guides", "howto"}
RequestClusterIds == 0..MaxClusterId
\* the pillar post a cluster request names
PillarPostIds == {NoneInt, 1}

\* select(TopicCluster).where(TopicCluster.id == cluster_id): the id found,
\* or None
TopicCluster_get_by_id(cls, cluster_id) ==
    IF cluster_id \in DOMAIN cls THEN cluster_id ELSE NoneInt

\* select(TopicCluster).where(TopicCluster.slug == slug): the id found, or
\* None
TopicCluster_get_by_slug(cls, slug) ==
    IF \E c \in DOMAIN cls : cls[c].slug = slug
    THEN CHOOSE c \in DOMAIN cls : cls[c].slug = slug
    ELSE NoneInt

\* where(TopicCluster.slug == slug), and where(TopicCluster.id != exclude_id)
\* only "if exclude_id:"
TopicCluster_slug_exists(cls, slug, exclude_id) ==
    \E c \in DOMAIN cls :
        /\ cls[c].slug = slug
        /\ (TruthyInt(exclude_id) => c # exclude_id)

\* name and slug are nullable=False, slug is unique=True, pillar_post_id
\* references blog_posts.id or is null
TopicCluster_constraints_ok(cls, ps, id, row) ==
    /\ row.name # NoneStr /\ row.slug # NoneStr
    /\ \A c \in DOMAIN cls \ {id} : cls[c].slug # row.slug
    /\ (row.pillar_post_id = NoneInt \/ row.pillar_post_id \in DOMAIN ps)

\* TopicClusterRepository.update: setattr for every field the request set
\* (model_dump(exclude_unset=True)), a None included
TopicCluster_apply_update(row, data) ==
    [name |-> IF data.name = UnsetStr THEN row.name ELSE data.name,
     slug |-> IF data.slug = UnsetStr THEN row.slug ELSE data.slug,
     pillar_post_id |-> IF data.pillar_post_id = UnsetInt
                        THEN row.pillar_post_id ELSE data.pillar_post_id]

\* TopicClusterRepository.delete: "db.delete(cluster)" creates the coroutine
\* of AsyncSession.delete and never awaits it, so the session marks nothing
\* as deleted and the commit that follows writes nothing.
TopicCluster_delete(cls, cluster_id) ==
    cls

\* ON DELETE SET NULL of blog_posts.topic_cluster_id, for the clusters that
\* the statement removed
Posts_topic_cluster_set_null(ps, cls) ==
    [p \in DOMAIN ps |->
        IF ps[p].topic_cluster_id # NoneInt /\ ps[p].topic_cluster_id \notin DOMAIN cls
        THEN [ps[p] EXCEPT !.topic_cluster_id = NoneInt]
        ELSE ps[p]]

(***************************************************************************)
(* TopicClusterService, and the controller's lookup by slug.               *)
(***************************************************************************)

\* data: [name, slug, pillar_post_id] (TopicClusterCreate)
create_topic_cluster(data) ==
    LET resp(st, id) == [op |-> "create_topic_cluster", status |-> st,
                         id |-> id, slug |-> data.slug, data |-> Sent(data)]
    IN
    IF TopicCluster_slug_exists(topic_clusters, data.slug, NoneInt)
    THEN /\ response' = resp(400, NoneInt)
         /\ UNCHANGED <<categoryVars, userVars, postVars, restVars>>
    ELSE \* TopicClusterRepository.create: INSERT, commit
         LET id == topic_clusters_seq + 1
             row == [name |-> data.name, slug |-> data.slug,
                     pillar_post_id |-> data.pillar_post_id]
         IN /\ topic_clusters_seq < MaxClusterId
            /\ topic_clusters_seq' = id
            /\ IF TopicCluster_constraints_ok(topic_clusters, posts, id, row)
               THEN /\ topic_clusters' = PutRow(topic_clusters, id, row)
                    /\ response' = resp(201, id)
               ELSE \* IntegrityError, caught by "except Exception"
                    /\ topic_clusters' = topic_clusters
                    /\ response' = resp(500, NoneInt)
            /\ UNCHANGED <<categoryVars, userVars, postVars, commentVars,
                           likeVars, viewVars, envVars>>

\* the body is TopicClusterOut.model_validate(cluster)
get_topic_cluster(cluster_id) ==
    /\ response' =
           IF TopicCluster_get_by_id(topic_clusters, cluster_id) = NoneInt
           THEN [op |-> "get_topic_cluster", status |-> 404, id |-> cluster_id]
           ELSE [op |-> "get_topic_cluster", status |-> 200, id |-> cluster_id,
                 body |-> topic_clusters[cluster_id]]
    /\ UNCHANGED <<categoryVars, userVars, postVars, restVars>>

get_topic_cluster_by_slug(slug) ==
    /\ response' = [op |-> "get_topic_cluster_by_slug",
                    status |-> IF TopicCluster_get_by_slug(topic_clusters, slug) = NoneInt
                               THEN 404 ELSE 200,
                    id |-> TopicCluster_get_by_slug(topic_clusters, slug)]
    /\ UNCHANGED <<categoryVars, userVars, postVars, restVars>>

\* data: [name, slug, pillar_post_id] (TopicClusterUpdate), each possibly
\* unset
update_topic_cluster(cluster_id, data) ==
    LET resp(st) == [op |-> "update_topic_cluster", status |-> st,
                     id |-> cluster_id, slug |-> data.slug]
    IN
    IF TopicCluster_get_by_id(topic_clusters, cluster_id) = NoneInt
    THEN /\ response' = resp(404)
         /\ UNCHANGED <<categoryVars, userVars, postVars, restVars>>
    ELSE LET cluster == topic_clusters[cluster_id] IN
    IF /\ data.slug # UnsetStr /\ TruthyStr(data.slug)
       /\ data.slug # cluster.slug
       /\ TopicCluster_slug_exists(topic_clusters, data.slug, cluster_id)
    THEN /\ response' = resp(400)
         /\ UNCHANGED <<categoryVars, userVars, postVars, restVars>>
    ELSE \* TopicClusterRepository.update: UPDATE, commit
         LET row == TopicCluster_apply_update(cluster, data) IN
         /\ IF TopicCluster_constraints_ok(topic_clusters, posts, cluster_id, row)
            THEN /\ topic_clusters' = PutRow(topic_clusters, cluster_id, row)
                 /\ response' = resp(200)
            ELSE /\ topic_clusters' = topic_clusters
                 /\ response' = resp(500)
         /\ UNCHANGED <<categoryVars, userVars, postVars, topic_clusters_seq,
                        commentVars, likeVars, viewVars, envVars>>

delete_topic_cluster(cluster_id) ==
    LET resp(st) == [op |-> "delete_topic_cluster", status |-> st,
                     id |-> cluster_id]
    IN
    IF TopicCluster_get_by_id(topic_clusters, cluster_id) = NoneInt
    THEN /\ response' = resp(404)
         /\ UNCHANGED <<categoryVars, userVars, postVars, restVars>>
    ELSE \* TopicClusterRepository.delete, commit
         /\ topic_clusters' = TopicCluster_delete(topic_clusters, cluster_id)
         /\ posts' = Posts_topic_cluster_set_null(posts, topic_clusters')
         /\ response' = resp(204)
         /\ UNCHANGED <<categoryVars, userVars, posts_seq, clock,
                        topic_clusters_seq, commentVars, likeVars, viewVars,
                        envVars>>

(***************************************************************************)
(* The requests on the content graph: categories, topic clusters and the   *)
(* posts that reference them.                                              *)
(***************************************************************************)
CreateRootCategory ==
    \E name \in CategoryNames, slug \in CategorySlugs :
        create_category([name |-> name, slug |-> slug, parent_id |-> NoneInt])

CreateTopicCluster ==
    \E name \in ClusterNames, slug \in ClusterSlugs,
       pillar_post_id \in PillarPostIds :
        create_topic_cluster([name |-> name, slug |-> slug,
                              pillar_post_id |-> pillar_post_id])

GetTopicCluster ==
    \E cluster_id \in RequestClusterIds : get_topic_cluster(cluster_id)

GetTopicClusterBySlug ==
    \E slug \in ClusterSlugs : get_topic_cluster_by_slug(slug)

UpdateTopicCluster ==
    \E cluster_id \in RequestClusterIds,
       name \in {UnsetStr, NoneStr},
       slug \in {UnsetStr} \cup ClusterSlugs,
       pillar_post_id \in {UnsetInt} \cup PillarPostIds :
        update_topic_cluster(cluster_id,
                             [name |-> name, slug |-> slug,
                              pillar_post_id |-> pillar_post_id])

DeleteTopicCluster ==
    \E cluster_id \in RequestClusterIds : delete_topic_cluster(cluster_id)

\* a post of user 1 that names a topic cluster
CreateClusterPost ==
    \E slug \in PostSlugs, topic_cluster_id \in {NoneInt, 1} :
        create_post([slug |-> slug, category_id |-> UnsetInt,
                     topic_cluster_id |-> topic_cluster_id,
                     status |-> UnsetStr], 1)

NextCluster ==
    \/ RegisterUser
    \/ CreateClusterPost
    \/ CreateTopicCluster
    \/ GetTopicCluster
    \/ GetTopicClusterBySlug
    \/ UpdateTopicCluster
    \/ DeleteTopicCluster

SpecCluster == Init /\ [][NextCluster]_vars

\* the attributes of the mapped class TopicCluster: its columns and its
\* relationship
TopicCluster_attributes ==
    {"id", "name", "slug", "pillar_post_id", "created_at", "updated_at", "posts"}

\* TopicClusterRepository.get_by_pillar_post:
\* select(TopicCluster).where(TopicCluster.pillar_post == pillar_post_id),
\* then scalars().first().  Reading an attribute the class does not have
\* raises AttributeError; first() is one of the rows that match, or None.
TopicCluster_get_by_pillar_post(pillar_post_id) ==
    LET matching == {c \in DOMAIN topic_clusters :
                        topic_clusters[c].pillar_post_id = pillar_post_id}
        resp(st, ids) == [op |-> "get_by_pillar_post", status |-> st,
                          pillar_post_id |-> pillar_post_id, ids |-> ids]
    IN
    /\ IF "pillar_post" \notin TopicCluster_attributes
       THEN response' = resp(500, {})
       ELSE IF matching = {}
       THEN response' = resp(200, {})
       ELSE \E c \in matching : response' = resp(200, {c})
    /\ UNCHANGED <<categoryVars, userVars, postVars, restVars>>

GetByPillarPost ==
    \E pillar_post_id \in 1..MaxPostId :
        TopicCluster_get_by_pillar_post(pillar_post_id)

NextPillar ==
    \/ RegisterUser
    \/ CreateClusterPost
    \/ CreateTopicCluster
    \/ GetByPillarPost

SpecPillar == Init /\ [][NextPillar]_vars

\* a post of user 1 that names a category and a topic cluster
CreateGraphPost ==
    \E slug \in PostSlugs, category_id \in {NoneInt, 1},
       topic_cluster_id \in {NoneInt, 1} :
        create_post([slug |-> slug, category_id |-> category_id,
                     topic_cluster_id |-> topic_cluster_id,
                     status |-> UnsetStr], 1)

NextGraph ==
    \/ RegisterUser
    \/ CreateRootCategory
    \/ DeleteCategory
    \/ CreateTopicCluster
    \/ DeleteTopicCluster
    \/ CreateGraphPost

SpecGraph == Init /\ [][NextGraph]_vars

(***************************************************************************)
(* Creating an entity and reading it back.  Here the requests carry the    *)
(* optional description of a category and the text of a post.              *)
(***************************************************************************)
Descriptions == {"About the backend"}
PostContents == {"0123456789"}

\* BlogPostRepository.create called with a dict of its own: BlogPost(**data),
\* add, commit
BlogPost_create(data) ==
    LET resp(st, id) == [op |-> "BlogPost_create", status |-> st, id |-> id,
                         data |-> Sent(data)]
    IN
    IF ~BlogPost_init_ok(data)
    THEN \* TypeError
         /\ response' = resp(500, NoneInt)
         /\ UNCHANGED <<categoryVars, userVars, postVars, restVars>>
    ELSE LET id == posts_seq + 1
             row == BlogPost_init(data)
         IN /\ posts_seq < MaxPostId
            /\ posts_seq' = id
            /\ IF BlogPost_constraints_ok(posts, users, categories, topic_clusters,
                                          id, row)
               THEN /\ posts' = PutRow(posts, id, row)
                    /\ response' = resp(201, id)
               ELSE \* IntegrityError
                    /\ posts' = posts
                    /\ response' = resp(500, NoneInt)
            /\ UNCHANGED <<categoryVars, userVars, clock, restVars>>

\* a category request with or without a description
CreateDescribedCategory ==
    \E name \in CategoryNames, slug \in CategorySlugs,
       parent_id \in {NoneInt, 1} :
        \/ create_category([name |-> name, slug |-> slug,
                            parent_id |-> parent_id])
        \/ \E description \in Descriptions :
               create_category([name |-> name, slug |-> slug,
                                description |-> description,
                                parent_id |-> parent_id])

\* POST /blog-posts/ with a body that BlogPostCreate accepts
CreateTextPost ==
    \E slug \in {"y"}, content \in PostContents,
       category_id \in {UnsetInt, 1} :
        create_post([slug |-> slug, content |-> content,
                     category_id |-> category_id,
                     topic_cluster_id |-> UnsetInt, status |-> UnsetStr], 1)

\* a row written with the columns of the mapped class
CreatePostRow ==
    \E slug \in {"x"}, content \in PostContents :
        \/ BlogPost_create([slug |-> slug, author_id |-> 1,
                            content_markdown |-> content,
                            content_html |-> content])
        \/ BlogPost_create([slug |-> slug, author_id |-> 1,
                            category_id |-> 1,
                            content_markdown |-> content,
                            content_html |-> content])
        \/ BlogPost_create([slug |-> slug, author_id |-> 1,
                            content |-> content])

\* a topic cluster with or without a pillar post
CreatePillarCluster ==
    \E name \in ClusterNames, pillar_post_id \in PillarPostIds :
        create_topic_cluster([name |-> name, slug |-> "guides",
                              pillar_post_id |-> pillar_post_id])

NextRoundTrip ==
    \/ RegisterUser
    \/ CreateDescribedCategory
    \/ GetCategory
    \/ CreatePillarCluster
    \/ GetTopicCluster
    \/ CreateTextPost
    \/ CreatePostRow
    \/ GetPost

SpecRoundTrip == Init /\ [][NextRoundTrip]_vars

\* PUT /categories/{id} with any part of the fields of CategoryUpdate
UpdateDescribedCategory ==
    \E category_id \in 1..MaxCategoryId,
       name \in {UnsetStr} \cup CategoryNames,
       slug \in {UnsetStr} \cup CategorySlugs,
       description \in {UnsetStr, NoneStr} \cup Descriptions,
       parent_id \in {UnsetInt, NoneInt, 1} :
        update_category(category_id,
                        [name |-> name, slug |-> slug,
                         description |-> description, parent_id |-> parent_id])

NextCategoryFields ==
    \/ CreateDescribedCategory
    \/ UpdateDescribedCategory

SpecCategoryFields == Init /\ [][NextCategoryFields]_vars

\* PUT /blog-posts/{id} by the author, on the references of the post
UpdatePostReferences ==
    \E post_id \in 1..MaxPostId,
       category_id \in {UnsetInt, NoneInt, 1},
       topic_cluster_id \in {UnsetInt, NoneInt, 1} :
        update_post(post_id, [slug |-> UnsetStr, category_id |-> category_id,
                              topic_cluster_id |-> topic_cluster_id,
                              status |-> UnsetStr], 1)

\* one category, one topic cluster and the posts that reference them
CreateOneCategory ==
    create_category([name |-> "Backend", slug |-> "backend",
                     parent_id |-> NoneInt])

CreateOneCluster ==
    create_topic_cluster([name |-> "Guides", slug |-> "guides",
                          pillar_post_id |-> NoneInt])

NextPostFields ==
    \/ RegisterUser
    \/ CreateOneCategory
    \/ CreateOneCluster
    \/ CreateGraphPost
    \/ UpdatePostReferences

SpecPostFields == Init /\ [][NextPostFields]_vars

(***************************************************************************)
(* Comments, likes and post views.  These have repositories only: no       *)
(* service or route calls them, so the operations are the repository       *)
(* methods themselves.  A dict argument is a function whose domain is the  *)
(* keys the caller passed.                                                 *)
(***************************************************************************)
Fingerprints == {"fp1", "fp2"}
RequestCommentIds == 0..MaxCommentId

\* Comment: parent_id is nullable, is_approved has default=False
Comment_defaults ==
    [post_id |-> NoneInt, parent_id |-> NoneInt, is_approved |-> FALSE]

\* post_id is nullable=False and references blog_posts.id; parent_id
\* references comments.id or is null
Comment_constraints_ok(cms, ps, id, row) ==
    /\ row.post_id # NoneInt
    /\ row.post_id \in DOMAIN ps
    /\ (row.parent_id = NoneInt \/ row.parent_id \in (DOMAIN cms \cup {id}))

\* CommentRepository.create; a statement the store refuses raises
\* IntegrityError (status 500 here)
Comment_create(data) ==
    LET id == comments_seq + 1
        row == Row_from_dict(Comment_defaults, data)
    IN /\ comments_seq < MaxCommentId
       /\ comments_seq' = id
       /\ IF Comment_constraints_ok(comments, posts, id, row)
          THEN /\ comments' = PutRow(comments, id, row)
               /\ response' = [op |-> "Comment_create", status |-> 201,
                               id |-> id, data |-> Sent(data)]
          ELSE /\ comments' = comments
               /\ response' = [op |-> "Comment_create", status |-> 500,
                               id |-> NoneInt, data |-> Sent(data)]
       /\ UNCHANGED <<categoryVars, userVars, postVars, clusterVars,
                      likeVars, viewVars, envVars>>

\* a public listing that leaves the approval filter out
Comment_get_by_post_Unfiltered(cms, post_id) ==
    {c \in DOMAIN cms : cms[c].post_id = post_id /\ cms[c].parent_id = NoneInt}

\* where(and_(Comment.post_id == post_id, Comment.is_approved == True,
\* Comment.parent_id == None)): the ids that match
Comment_get_by_post(cms, post_id) ==
    {c \in DOMAIN cms : /\ cms[c].post_id = post_id
                        /\ cms[c].is_approved = TRUE
                        /\ cms[c].parent_id = NoneInt}

\* CommentRepository.get_by_post
Comment_list(post_id, skip, limit) ==
    /\ \E ids \in Page(Comment_get_by_post(comments, post_id), skip, limit) :
           response' = [op |-> "Comment_get_by_post", status |-> 200,
                        post_id |-> post_id, ids |-> ids]
    /\ UNCHANGED <<categoryVars, userVars, postVars, restVars>>

\* CommentRepository.get_unapproved: where(Comment.is_approved == False)
Comment_get_unapproved ==
    /\ response' = [op |-> "Comment_get_unapproved", status |-> 200,
                    ids |-> {c \in DOMAIN comments : comments[c].is_approved = FALSE}]
    /\ UNCHANGED <<categoryVars, userVars, postVars, restVars>>

\* CommentRepository.update(comment, {"is_approved": is_approved}): setattr
\* for every value that "is not None"
Comment_update(comment_id, is_approved) ==
    /\ comment_id \in DOMAIN comments
    /\ comments' = PutRow(comments, comment_id,
                          [comments[comment_id] EXCEPT !.is_approved = is_approved])
    /\ response' = [op |-> "Comment_update", status |-> 200,
                    id |-> comment_id, is_approved |-> is_approved]
    /\ UNCHANGED <<categoryVars, userVars, postVars, clusterVars,
                   comments_seq, likeVars, viewVars, envVars>>

\* Like: post_id and comment_id are nullable
Like_defaults ==
    [post_id |-> NoneInt, comment_id |-> NoneInt, fingerprint_hash |-> NoneStr]

\* fingerprint_hash is nullable=False; post_id references blog_posts.id or
\* is null; comment_id references comments.id or is null.  The table
\* declares no unique constraint.
Like_constraints_ok(ps, cms, row) ==
    /\ row.fingerprint_hash # NoneStr
    /\ (row.post_id = NoneInt \/ row.post_id \in DOMAIN ps)
    /\ (row.comment_id = NoneInt \/ row.comment_id \in DOMAIN cms)

\* LikeRepository.create: Like(**data), add, commit
Like_create(data) ==
    LET id == likes_seq + 1
        row == Row_from_dict(Like_defaults, data)
    IN /\ likes_seq < MaxLikeId
       /\ likes_seq' = id
       /\ IF Like_constraints_ok(posts, comments, row)
          THEN /\ likes' = PutRow(likes, id, row)
               /\ response' = [op |-> "Like_create", status |-> 201,
                               id |-> id, data |-> Sent(data)]
          ELSE /\ likes' = likes
               /\ response' = [op |-> "Like_create", status |-> 500,
                               id |-> NoneInt, data |-> Sent(data)]
       /\ UNCHANGED <<categoryVars, userVars, postVars, clusterVars,
                      commentVars, viewVars, envVars>>

\* where(and_(Like.<target> == target_id, Like.fingerprint_hash ==
\* fingerprint_hash)): the ids that match
Like_select(lks, target, target_id, fingerprint_hash) ==
    {l \in DOMAIN lks : /\ lks[l][target] = target_id
                        /\ lks[l].fingerprint_hash = fingerprint_hash}

\* LikeRepository.post_like_exists / comment_like_exists:
\* "scalar_one_or_none() is not None"; scalar_one_or_none raises
\* MultipleResultsFound when more than one row matches
Like_exists(target, target_id, fingerprint_hash) ==
    LET found == Like_select(likes, target, target_id, fingerprint_hash) IN
    /\ response' = [op |-> "Like_exists", target |-> target,
                    target_id |-> target_id,
                    fingerprint_hash |-> fingerprint_hash,
                    status |-> IF Cardinality(found) > 1 THEN 500 ELSE 200,
                    exists |-> Cardinality(found) = 1]
    /\ UNCHANGED <<categoryVars, userVars, postVars, restVars>>

\* "db.delete(like)" of delete_post_like / delete_comment_like creates the
\* coroutine of AsyncSession.delete and never awaits it: the session marks
\* nothing as deleted and the commit writes nothing.
Like_delete_row(lks, like_id) ==
    lks

\* LikeRepository.delete_post_like / delete_comment_like
Like_delete(target, target_id, fingerprint_hash) ==
    LET found == Like_select(likes, target, target_id, fingerprint_hash)
        resp(st) == [op |-> "Like_delete", target |-> target,
                     target_id |-> target_id,
                     fingerprint_hash |-> fingerprint_hash, status |-> st]
    IN
    IF Cardinality(found) > 1
    THEN \* MultipleResultsFound
         /\ response' = resp(500)
         /\ UNCHANGED <<categoryVars, userVars, postVars, restVars>>
    ELSE IF found = {}
    THEN /\ response' = resp(200)
         /\ UNCHANGED <<categoryVars, userVars, postVars, restVars>>
    ELSE /\ likes' = Like_delete_row(likes, CHOOSE l \in found : TRUE)
         /\ response' = resp(200)
         /\ UNCHANGED <<categoryVars, userVars, postVars, clusterVars,
                        commentVars, likes_seq, viewVars, envVars>>

\* PostView: post_id is nullable=False and references blog_posts.id
PostView_constraints_ok(ps, row) ==
    row.post_id # NoneInt /\ row.post_id \in DOMAIN ps

\* PostViewRepository.create
PostView_create(data) ==
    LET id == post_views_seq + 1
        row == [post_id |-> data.post_id,
                fingerprint_hash |-> data.fingerprint_hash]
    IN /\ post_views_seq < MaxViewId
       /\ post_views_seq' = id
       /\ IF PostView_constraints_ok(posts, row)
          THEN /\ post_views' = PutRow(post_views, id, row)
               /\ response' = [op |-> "PostView_create", status |-> 201,
                               id |-> id]
          ELSE /\ post_views' = post_views
               /\ response' = [op |-> "PostView_create", status |-> 500,
                               id |-> NoneInt]
       /\ UNCHANGED <<categoryVars, userVars, postVars, clusterVars,
                      commentVars, likeVars, envVars>>

(***************************************************************************)
(* The calls on likes, over one user's posts and their comments.           *)
(***************************************************************************)

\* a post of user 1 with no category and no topic cluster
CreateDraft ==
    \E slug \in PostSlugs :
        create_post([slug |-> slug, category_id |-> UnsetInt,
                     topic_cluster_id |-> UnsetInt, status |-> UnsetStr], 1)

\* a top-level comment on post 1
CreateTopComment ==
    Comment_create([post_id |-> 1])

CreateLike ==
    \/ \E post_id \in 1..MaxPostId, fingerprint_hash \in Fingerprints :
           Like_create([post_id |-> post_id,
                        fingerprint_hash |-> fingerprint_hash])
    \/ \E comment_id \in 1..MaxCommentId, fingerprint_hash \in Fingerprints :
           Like_create([comment_id |-> comment_id,
                        fingerprint_hash |-> fingerprint_hash])

PostLikeExists ==
    \E post_id \in 1..MaxPostId, fingerprint_hash \in Fingerprints :
        Like_exists("post_id", post_id, fingerprint_hash)

CommentLikeExists ==
    \E comment_id \in 1..MaxCommentId, fingerprint_hash \in Fingerprints :
        Like_exists("comment_id", comment_id, fingerprint_hash)

DeletePostLike ==
    \E post_id \in 1..MaxPostId, fingerprint_hash \in Fingerprints :
        Like_delete("post_id", post_id, fingerprint_hash)

DeleteCommentLike ==
    \E comment_id \in 1..MaxCommentId, fingerprint_hash \in Fingerprints :
        Like_delete("comment_id", comment_id, fingerprint_hash)

NextLike ==
    \/ RegisterUser
    \/ CreateDraft
    \/ CreateTopComment
    \/ CreateLike
    \/ PostLikeExists
    \/ CommentLikeExists
    \/ DeletePostLike
    \/ DeleteCommentLike

SpecLike == Init /\ [][NextLike]_vars

(***************************************************************************)
(* The calls on comments.                                                  *)
(***************************************************************************)

\* the dicts a caller passes to CommentRepository.create: a post, with or
\* without a parent, with or without an approval flag
CommentDicts ==
    {[post_id |-> post_id] @@ parent @@ approval :
        post_id \in 1..MaxPostId,
        parent \in {<<>>, [parent_id |-> 1]},
        approval \in {<<>>, [is_approved |-> TRUE]}}

CreateComment ==
    \E data \in CommentDicts : Comment_create(data)

ModerateComment ==
    \E comment_id \in RequestCommentIds, is_approved \in BOOLEAN :
        Comment_update(comment_id, is_approved)

ListComments ==
    \E post_id \in 1..MaxPostId, skip \in {0, 1}, limit \in {1, 20} :
        Comment_list(post_id, skip, limit)

ListUnapproved == Comment_get_unapproved

NextComment ==
    \/ RegisterUser
    \/ CreateDraft
    \/ CreateComment
    \/ ModerateComment
    \/ ListComments
    \/ ListUnapproved

SpecComment == Init /\ [][NextComment]_vars

(***************************************************************************)
(* The life of a post.                                                     *)
(***************************************************************************)
\* PUT /posts/{id} by user 1 with a slug and a status, which BlogPostUpdate
\* does not declare
UpdatePostSlug ==
    \E post_id \in 1..MaxPostId, slug \in PostSlugs :
        update_post(post_id, [slug |-> slug, category_id |-> UnsetInt,
                              topic_cluster_id |-> UnsetInt,
                              status |-> "archived"], 1)

\* the life of a post: created, rewritten, published, deleted
NextStatus ==
    \/ RegisterUser
    \/ CreateDraft
    \/ UpdatePostSlug
    \/ PublishPost
    \/ DeletePost

SpecStatus == Init /\ [][NextStatus]_vars

(***************************************************************************)
(* Requests in flight.  A request is a coroutine of the event loop: it     *)
(* resolves its get_db dependency, runs its handler, whose awaits on the    *)
(* store are the points where other requests run, and leaves get_db when   *)
(* the handler has returned or raised.  A statement sees what is committed *)
(* when it runs; an INSERT and the commit that follows it are one step, as *)
(* the store serialises writers of the same unique key.                    *)
(***************************************************************************)
MaxRequests == 2
RequestIds == 1..MaxRequests
\* the parent a concurrent create names
RaceParentIds == {NoneInt, 1}

\* requests with position pc of request r replaced, and its status set
At(r, pc, status) ==
    [requests EXCEPT ![r].pc = pc, ![r].status = status]

\* a request arrives: POST /categories or GET /categories/{id}
Arrive(kind, data) ==
    /\ Len(requests) < MaxRequests
    /\ requests' = Append(requests, [kind |-> kind, data |-> Sent(data),
                                     pc |-> "get_db", status |-> 0])
    /\ UNCHANGED <<categoryVars, userVars, postVars, clusterVars, commentVars,
                   likeVars, viewVars, sessions, BCRYPT_AVAILABLE, response>>

\* get_db up to its yield: "async with AsyncSessionLocal() as session"
get_db_enter(r) ==
    /\ requests[r].pc = "get_db"
    /\ sessions' = sessions \cup {r}
    /\ requests' = At(r, requests[r].kind, 0)
    /\ UNCHANGED <<categoryVars, userVars, postVars, clusterVars, commentVars,
                   likeVars, viewVars, BCRYPT_AVAILABLE, response>>

\* a get_db that finishes the request and leaves the session open
get_db_exit_Leak(r) ==
    /\ requests[r].pc \in {"returned", "raised"}
    /\ requests' = At(r, "done", requests[r].status)
    /\ UNCHANGED <<categoryVars, userVars, postVars, clusterVars, commentVars,
                   likeVars, viewVars, sessions, BCRYPT_AVAILABLE, response>>

\* get_db after its yield: the handler has returned, or its exception is
\* thrown into the generator; either way "async with" closes the session
get_db_exit(r) ==
    /\ requests[r].pc \in {"returned", "raised"}
    /\ sessions' = sessions \ {r}
    /\ requests' = At(r, "done", requests[r].status)
    /\ UNCHANGED <<categoryVars, userVars, postVars, clusterVars, commentVars,
                   likeVars, viewVars, BCRYPT_AVAILABLE, response>>

\* create_category, first await: CategoryRepository.slug_exists
create_category_slug_exists(r) ==
    /\ requests[r].pc = "create_category"
    /\ r \in sessions
    /\ requests' =
           IF Category_slug_exists(categories, requests[r].data.slug, NoneInt)
           THEN At(r, "raised", 409)
           ELSE IF TruthyInt(requests[r].data.parent_id)
           THEN At(r, "get_by_id", 0)
           ELSE At(r, "commit", 0)
    /\ UNCHANGED <<categoryVars, userVars, postVars, clusterVars, commentVars,
                   likeVars, viewVars, sessions, BCRYPT_AVAILABLE, response>>

\* create_category, second await: CategoryRepository.get_by_id of the parent
create_category_get_parent(r) ==
    /\ requests[r].pc = "get_by_id"
    /\ r \in sessions
    /\ requests' =
           IF Category_get_by_id(categories, requests[r].data.parent_id) = NoneInt
           THEN At(r, "raised", 404)
           ELSE At(r, "create", 0)
    /\ UNCHANGED <<categoryVars, userVars, postVars, clusterVars, commentVars,
                   likeVars, viewVars, sessions, BCRYPT_AVAILABLE, response>>

\* CategoryRepository.create, its first await: get_by_id of the parent
\* again, "if data.parent_id:"; the ValueError it raises is caught by the
\* service and raised again as a 500
create_category_create_get_parent(r) ==
    /\ requests[r].pc = "create"
    /\ r \in sessions
    /\ requests' =
           IF Category_get_by_id(categories, requests[r].data.parent_id) = NoneInt
           THEN At(r, "raised", 500)
           ELSE At(r, "commit", 0)
    /\ UNCHANGED <<categoryVars, userVars, postVars, clusterVars, commentVars,
                   likeVars, viewVars, sessions, BCRYPT_AVAILABLE, response>>

\* CategoryRepository.create, its commit (INSERT, commit); an
\* IntegrityError is caught by the service and raised again as a 500
create_category_create(r) ==
    LET id == categories_seq + 1
        row == Category_init(requests[r].data)
    IN /\ requests[r].pc = "commit"
       /\ r \in sessions
       /\ categories_seq' = id
       /\ IF Category_constraints_ok(categories, id, row)
          THEN /\ categories' = PutRow(categories, id, row)
               /\ requests' = At(r, "returned", 201)
          ELSE /\ categories' = categories
               /\ requests' = At(r, "raised", 500)
       /\ UNCHANGED <<userVars, postVars, clusterVars, commentVars, likeVars,
                      viewVars, sessions, BCRYPT_AVAILABLE, response>>

\* get_category: its one await, CategoryRepository.get_by_id
get_category_get_by_id(r) ==
    /\ requests[r].pc = "get_category"
    /\ r \in sessions
    /\ requests' =
           IF Category_get_by_id(categories, requests[r].data.id) = NoneInt
           THEN At(r, "raised", 404)
           ELSE At(r, "returned", 200)
    /\ UNCHANGED <<categoryVars, userVars, postVars, clusterVars, commentVars,
                   likeVars, viewVars, sessions, BCRYPT_AVAILABLE, response>>

ArriveCreateCategory ==
    \E name \in CategoryNames, slug \in CategorySlugs,
       parent_id \in RaceParentIds :
        Arrive("create_category",
               [name |-> name, slug |-> slug, parent_id |-> parent_id])

ArriveGetCategory ==
    Arrive("get_category", [id |-> 1])

\* the next step of request r
Step(r) ==
    /\ r \in DOMAIN requests
    /\ \/ get_db_enter(r)
       \/ create_category_slug_exists(r)
       \/ create_category_get_parent(r)
       \/ create_category_create_get_parent(r)
       \/ create_category_create(r)
       \/ get_category_get_by_id(r)
       \/ get_db_exit(r)

NextRace ==
    \/ ArriveCreateCategory
    \/ ArriveGetCategory
    \/ \E r \in DOMAIN requests : get_db_enter(r)
    \/ \E r \in DOMAIN requests : create_category_slug_exists(r)
    \/ \E r \in DOMAIN requests : create_category_get_parent(r)
    \/ \E r \in DOMAIN requests : create_category_create_get_parent(r)
    \/ \E r \in DOMAIN requests : create_category_create(r)
    \/ \E r \in DOMAIN requests : get_category_get_by_id(r)
    \/ \E r \in DOMAIN requests : get_db_exit(r)

SpecRace == Init /\ [][NextRace]_vars

\* the event loop runs every coroutine that can run
SpecSession == SpecRace /\ \A r \in RequestIds : WF_vars(Step(r))

(***************************************************************************)
(* Updates in flight.  A request loads the row into its own session with   *)
(* get_by_id and keeps that copy across its awaits; the setattr calls of   *)
(* the repository change the copy, and the flush of the commit sends an    *)
(* UPDATE that names the columns whose value differs from the value        *)
(* loaded, and no other column.                                            *)
(***************************************************************************)

\* the request with the row it loaded, at position pc
Loaded(r, row, pc) ==
    [requests EXCEPT ![r] = [kind |-> requests[r].kind,
                             data |-> requests[r].data,
                             pc |-> pc, status |-> 0, loaded |-> row]]

\* Session.flush of a modified object: UPDATE ... SET the columns whose
\* attribute differs from the value loaded, WHERE id = the object's id
Session_flush(stored, loaded, current) ==
    [f \in DOMAIN stored |->
        IF current[f] # loaded[f] THEN current[f] ELSE stored[f]]

\* "data.slug and data.slug != category.slug"
Category_update_checks_slug(data, category) ==
    /\ data.slug # UnsetStr /\ TruthyStr(data.slug)
    /\ data.slug # category.slug

\* "data.parent_id is not None and data.parent_id != category.parent_id"
Category_update_checks_parent(data, category) ==
    /\ data.parent_id # NoneInt /\ data.parent_id # UnsetInt
    /\ data.parent_id # category.parent_id

\* update_category, first await: CategoryRepository.get_by_id
update_category_get_by_id(r) ==
    /\ requests[r].pc = "update_category"
    /\ r \in sessions
    /\ requests' =
           IF Category_get_by_id(categories, requests[r].data.id) = NoneInt
           THEN At(r, "raised", 404)
           ELSE LET category == categories[requests[r].data.id] IN
                Loaded(r, category,
                       IF Category_update_checks_slug(requests[r].data, category)
                       THEN "update_slug_exists"
                       ELSE IF Category_update_checks_parent(requests[r].data,
                                                             category)
                       THEN "update_get_parent"
                       ELSE "update_commit")
    /\ UNCHANGED <<categoryVars, userVars, postVars, clusterVars, commentVars,
                   likeVars, viewVars, sessions, BCRYPT_AVAILABLE, response>>

\* update_category, the await of CategoryRepository.slug_exists
update_category_slug_exists(r) ==
    /\ requests[r].pc = "update_slug_exists"
    /\ r \in sessions
    /\ requests' =
           IF Category_slug_exists(categories, requests[r].data.slug,
                                   requests[r].data.id)
           THEN At(r, "raised", 400)
           ELSE IF Category_update_checks_parent(requests[r].data,
                                                 requests[r].loaded)
           THEN At(r, "update_get_parent", 0)
           ELSE At(r, "update_commit", 0)
    /\ UNCHANGED <<categoryVars, userVars, postVars, clusterVars, commentVars,
                   likeVars, viewVars, sessions, BCRYPT_AVAILABLE, response>>

\* update_category, the await of get_by_id of the new parent
update_category_get_parent(r) ==
    /\ requests[r].pc = "update_get_parent"
    /\ r \in sessions
    /\ requests' =
           IF Category_get_by_id(categories, requests[r].data.parent_id) = NoneInt
           THEN At(r, "raised", 404)
           ELSE At(r, "update", 0)
    /\ UNCHANGED <<categoryVars, userVars, postVars, clusterVars, commentVars,
                   likeVars, viewVars, sessions, BCRYPT_AVAILABLE, response>>

\* CategoryRepository.update, its first await: get_by_id of the new parent
\* again; the ValueError is caught by the service and raised again as a 500
update_category_update_get_parent(r) ==
    /\ requests[r].pc = "update"
    /\ r \in sessions
    /\ requests' =
           IF Category_get_by_id(categories, requests[r].data.parent_id) = NoneInt
           THEN At(r, "raised", 500)
           ELSE At(r, "update_commit", 0)
    /\ UNCHANGED <<categoryVars, userVars, postVars, clusterVars, commentVars,
                   likeVars, viewVars, sessions, BCRYPT_AVAILABLE, response>>

\* CategoryRepository.update: the setattr loop, commit and refresh.  An
\* UPDATE that finds no row, a refresh that finds no row and an
\* IntegrityError are all caught by the service and raised again as a 500.
update_category_update(r) ==
    LET id == requests[r].data.id
        loaded == requests[r].loaded
        current == Category_apply_update(loaded, requests[r].data)
    IN /\ requests[r].pc = "update_commit"
       /\ requests[r].kind = "update_category"
       /\ r \in sessions
       /\ IF id \notin DOMAIN categories
          THEN /\ categories' = categories
               /\ requests' = At(r, "raised", 500)
          ELSE LET row == Session_flush(categories[id], loaded, current) IN
               IF Category_constraints_ok(categories, id, row)
               THEN /\ categories' = PutRow(categories, id, row)
                    /\ requests' = At(r, "returned", 200)
               ELSE /\ categories' = categories
                    /\ requests' = At(r, "raised", 500)
       /\ UNCHANGED <<categories_seq, userVars, postVars, clusterVars,
                      commentVars, likeVars, viewVars, sessions,
                      BCRYPT_AVAILABLE, response>>

\* update_post, first await: BlogPostRepository.get_by_id, and the author
\* check that follows it
update_post_get_by_id(r) ==
    /\ requests[r].pc = "update_post"
    /\ r \in sessions
    /\ requests' =
           IF BlogPost_get_by_id(posts, requests[r].data.id) = NoneInt
           THEN At(r, "raised", 404)
           ELSE LET post == posts[requests[r].data.id] IN
                IF BlogPost_not_author(post, requests[r].data.author_id)
                THEN At(r, "raised", 403)
                ELSE Loaded(r, post,
                            IF /\ TruthyStr(Attr(requests[r].data, "slug"))
                               /\ Attr(requests[r].data, "slug") # post.slug
                            THEN "update_post_slug_exists"
                            ELSE "update_commit")
    /\ UNCHANGED <<categoryVars, userVars, postVars, clusterVars, commentVars,
                   likeVars, viewVars, sessions, BCRYPT_AVAILABLE, response>>

\* update_post, the await of BlogPostRepository.slug_exists
update_post_slug_exists(r) ==
    /\ requests[r].pc = "update_post_slug_exists"
    /\ r \in sessions
    /\ requests' =
           IF BlogPost_slug_exists(posts, Attr(requests[r].data, "slug"),
                                   requests[r].data.id)
           THEN At(r, "raised", 409)
           ELSE At(r, "update_commit", 0)
    /\ UNCHANGED <<categoryVars, userVars, postVars, clusterVars, commentVars,
                   likeVars, viewVars, sessions, BCRYPT_AVAILABLE, response>>

\* BlogPostRepository.update: the setattr loop, commit and refresh, and
\* BlogPostOut.model_validate; nothing catches what they raise
update_post_update(r) ==
    LET id == requests[r].data.id
        loaded == requests[r].loaded
        current == BlogPost_update(loaded,
                                   BlogPostUpdate_model_dump(requests[r].data))
    IN /\ requests[r].pc = "update_commit"
       /\ requests[r].kind = "update_post"
       /\ r \in sessions
       /\ IF id \notin DOMAIN posts
          THEN /\ posts' = posts
               /\ requests' = At(r, "raised", 500)
          ELSE LET row == Session_flush(posts[id], loaded, current) IN
               IF BlogPost_constraints_ok(posts, users, categories,
                                          topic_clusters, id, row)
               THEN /\ posts' = PutRow(posts, id, row)
                    /\ requests' =
                           IF BlogPostOut_model_validate_ok(row)
                           THEN At(r, "returned", 200)
                           ELSE At(r, "raised", 500)
               ELSE /\ posts' = posts
                    /\ requests' = At(r, "raised", 500)
       /\ UNCHANGED <<categoryVars, userVars, posts_seq, clock, clusterVars,
                      commentVars, likeVars, viewVars, sessions,
                      BCRYPT_AVAILABLE, response>>

\* one post of user 1
CreateOnePost ==
    create_post([slug |-> "x", category_id |-> UnsetInt,
                 topic_cluster_id |-> UnsetInt, status |-> UnsetStr], 1)

\* PUT /categories/1 with a slug
ArriveUpdateCategory ==
    \E slug \in CategorySlugs :
        Arrive("update_category",
               [id |-> 1, name |-> UnsetStr, slug |-> slug,
                parent_id |-> UnsetInt])

\* PUT /posts/1 with a slug, by its author
ArriveUpdatePost ==
    \E slug \in PostSlugs :
        Arrive("update_post",
               [id |-> 1, author_id |-> 1, slug |-> slug,
                category_id |-> UnsetInt, topic_cluster_id |-> UnsetInt])

NextUpdateRace ==
    \/ RegisterUser
    \/ CreateOneCategory
    \/ CreateOnePost
    \/ ArriveUpdateCategory
    \/ ArriveUpdatePost
    \/ \E r \in DOMAIN requests : get_db_enter(r)
    \/ \E r \in DOMAIN requests : update_category_get_by_id(r)
    \/ \E r \in DOMAIN requests : update_category_slug_exists(r)
    \/ \E r \in DOMAIN requests : update_category_update(r)
    \/ \E r \in DOMAIN requests : update_post_get_by_id(r)
    \/ \E r \in DOMAIN requests : update_post_slug_exists(r)
    \/ \E r \in DOMAIN requests : update_post_update(r)
    \/ \E r \in DOMAIN requests : get_db_exit(r)

SpecUpdateRace == Init /\ [][NextUpdateRace]_vars

(***************************************************************************)
(* A delete in flight.  Category.parent has backref "children" with no     *)
(* delete cascade: the flush of the commit loads the children of the       *)
(* deleted object, sets their parent_id to NULL and then sends the DELETE, *)
(* which the store refuses while a row it did not load references the     *)
(* category.                                                               *)
(***************************************************************************)

\* a DELETE that the store lets through whatever references the row
Category_delete_ok_Unchecked(cats, id) ==
    TRUE

\* ForeignKey("categories.id") of parent_id, checked by the DELETE: no
\* other row references the row deleted
Category_delete_ok(cats, id) ==
    \A c \in DOMAIN cats \ {id} : cats[c].parent_id # id

\* UPDATE categories SET parent_id = NULL for each child the flush loaded
Category_children_set_null(cats, children) ==
    [c \in DOMAIN cats |->
        IF c \in children THEN [cats[c] EXCEPT !.parent_id = NoneInt]
        ELSE cats[c]]

\* delete_category, first await: CategoryRepository.get_by_id
delete_category_get_by_id(r) ==
    /\ requests[r].pc = "delete_category"
    /\ r \in sessions
    /\ requests' =
           IF Category_get_by_id(categories, requests[r].data.id) = NoneInt
           THEN At(r, "raised", 404)
           ELSE At(r, "delete_get_children", 0)
    /\ UNCHANGED <<categoryVars, userVars, postVars, clusterVars, commentVars,
                   likeVars, viewVars, sessions, BCRYPT_AVAILABLE, response>>

\* delete_category, second await: CategoryRepository.get_children
delete_category_get_children(r) ==
    /\ requests[r].pc = "delete_get_children"
    /\ r \in sessions
    /\ requests' =
           IF Category_has_children(categories, requests[r].data.id)
           THEN At(r, "raised", 400)
           ELSE At(r, "delete", 0)
    /\ UNCHANGED <<categoryVars, userVars, postVars, clusterVars, commentVars,
                   likeVars, viewVars, sessions, BCRYPT_AVAILABLE, response>>

\* CategoryRepository.delete: "await db.delete(category)" marks the object,
\* and the flush of the commit begins by loading its children
delete_category_delete(r) ==
    /\ requests[r].pc = "delete"
    /\ r \in sessions
    /\ requests' =
           Loaded(r, Category_get_children(categories, requests[r].data.id),
                  "delete_commit")
    /\ UNCHANGED <<categoryVars, userVars, postVars, clusterVars, commentVars,
                   likeVars, viewVars, sessions, BCRYPT_AVAILABLE, response>>

\* the rest of the commit: the UPDATE of the children loaded, the DELETE
\* and COMMIT.  An IntegrityError rolls the transaction back; it is caught
\* by the service and raised again as a 500.
delete_category_commit(r) ==
    LET id == requests[r].data.id
        cats == Category_children_set_null(categories, requests[r].loaded)
    IN /\ requests[r].pc = "delete_commit"
       /\ r \in sessions
       /\ IF id \in DOMAIN categories /\ Category_delete_ok(cats, id)
          THEN /\ categories' = DropRow(cats, id)
               /\ posts' = Posts_category_set_null(posts, id)
               /\ requests' = At(r, "returned", 200)
          ELSE /\ categories' = categories
               /\ posts' = posts
               /\ requests' = At(r, "raised", 500)
       /\ UNCHANGED <<categories_seq, userVars, posts_seq, clock, clusterVars,
                      commentVars, likeVars, viewVars, sessions,
                      BCRYPT_AVAILABLE, response>>

\* POST /categories {"name": "Backend", "slug": "python-backend",
\* "parent_id": 1}
ArriveCreateChild ==
    Arrive("create_category",
           [name |-> "Backend", slug |-> "python-backend", parent_id |-> 1])

\* DELETE /categories/1
ArriveDeleteCategory ==
    Arrive("delete_category", [id |-> 1])

\* PUT /categories/2 {"parent_id": 1}
ArriveUpdateParent ==
    Arrive("update_category",
           [id |-> 2, name |-> UnsetStr, slug |-> UnsetStr, parent_id |-> 1])

NextDeleteRace ==
    \/ CreateRootCategory
    \/ ArriveCreateChild
    \/ ArriveUpdateParent
    \/ ArriveDeleteCategory
    \/ \E r \in DOMAIN requests : get_db_enter(r)
    \/ \E r \in DOMAIN requests : create_category_slug_exists(r)
    \/ \E r \in DOMAIN requests : create_category_get_parent(r)
    \/ \E r \in DOMAIN requests : create_category_create_get_parent(r)
    \/ \E r \in DOMAIN requests : create_category_create(r)
    \/ \E r \in DOMAIN requests : update_category_get_by_id(r)
    \/ \E r \in DOMAIN requests : update_category_get_parent(r)
    \/ \E r \in DOMAIN requests : update_category_update_get_parent(r)
    \/ \E r \in DOMAIN requests : update_category_update(r)
    \/ \E r \in DOMAIN requests : delete_category_get_by_id(r)
    \/ \E r \in DOMAIN requests : delete_category_get_children(r)
    \/ \E r \in DOMAIN requests : delete_category_delete(r)
    \/ \E r \in DOMAIN requests : delete_category_commit(r)
    \/ \E r \in DOMAIN requests : get_db_exit(r)

SpecDeleteRace == Init /\ [][NextDeleteRace]_vars

(***************************************************************************)
(* The calls on a post and the rows that reference it.                     *)
(***************************************************************************)
CreatePostView ==
    \E post_id \in 1..MaxPostId, fingerprint_hash \in Fingerprints :
        PostView_create([post_id |-> post_id,
                         fingerprint_hash |-> fingerprint_hash])

NextCascade ==
    \/ RegisterUser
    \/ CreateDraft
    \/ DeletePost
    \/ CreateTopComment
    \/ CreateLike
    \/ CreatePostView

SpecCascade == Init /\ [][NextCascade]_vars

(***************************************************************************)
(* Properties of the category service.                                     *)
(***************************************************************************)

\* the stored categories other than id that hold the slug
SlugHolders(cats, slug, id) ==
    {c \in DOMAIN cats \ {id} : cats[c].slug = slug}

\* the stored categories whose parent is id
DirectChildren(cats, id) ==
    {c \in DOMAIN cats : cats[c].parent_id = id}

\* C1: whatever sequence of create, update and delete requests is executed,
\* no two stored categories have the same slug; a create whose slug a stored
\* category holds is rejected (409), an update that changes the slug to one
\* a different category holds is rejected (400), both leaving the table as
\* it was, and an update to the category's own current slug is not rejected
\* as a duplicate.
C1_CategorySlugUnique ==
    [][ /\ \A a, b \in DOMAIN categories' :
              a # b => categories'[a].slug # categories'[b].slug
        /\ (/\ response'.op = "create_category"
            /\ SlugHolders(categories, response'.slug, NoneInt) # {})
           => (response'.status = 409 /\ categories' = categories)
        /\ (/\ response'.op = "update_category"
            /\ response'.id \in DOMAIN categories
            /\ response'.slug \in CategorySlugs
            /\ SlugHolders(categories, response'.slug, response'.id) # {})
           => (response'.status = 400 /\ categories' = categories)
        /\ (/\ response'.op = "update_category"
            /\ response'.id \in DOMAIN categories
            /\ response'.slug = categories[response'.id].slug)
           => response'.status # 400
      ]_vars

\* two categories are stored and an update of one to the other's slug has
\* just been rejected
C1_Witness ==
    /\ Cardinality(DOMAIN categories) = 2
    /\ response.op = "update_category"
    /\ response.status = 400
    /\ response.id \in DOMAIN categories
    /\ SlugHolders(categories, response.slug, response.id) # {}

C3_DeleteRequiresNoChildren ==
    [][ (/\ response'.op = "delete_category"
         /\ response'.id \in DOMAIN categories)
        => IF DirectChildren(categories, response'.id) # {}
           THEN /\ response'.status = 400
                /\ response'.subcategories =
                       Cardinality(DirectChildren(categories, response'.id))
                /\ categories' = categories
           ELSE /\ response'.status = 200
                /\ DOMAIN categories' = DOMAIN categories \ {response'.id}
                /\ \A c \in DOMAIN categories' : categories'[c] = categories[c]
                /\ Category_get_by_id(categories', response'.id) = NoneInt
      ]_vars

\* a delete has been refused because of the children that are still stored
C3_Witness ==
    /\ response.op = "delete_category"
    /\ response.status = 400
    /\ response.subcategories >= 1
    /\ DirectChildren(categories, response.id) # {}

\* C4 (as claimed): a create that names a parent_id, or an update that
\* changes parent_id, is answered 404 whenever no stored category has that
\* id, and then creates or modifies nothing.  (The slug is free, and for
\* the update the target is stored, so that no earlier check answers.)
C4_MissingParentNotFound ==
    [][ /\ (/\ response'.op = "create_category"
            /\ response'.parent_id # NoneInt
            /\ response'.parent_id \notin DOMAIN categories
            /\ SlugHolders(categories, response'.slug, NoneInt) = {})
           => (response'.status = 404 /\ categories' = categories)
        /\ (/\ response'.op = "update_category"
            /\ response'.id \in DOMAIN categories
            /\ response'.parent_id \notin {NoneInt, UnsetInt}
            /\ response'.parent_id # categories[response'.id].parent_id
            /\ response'.parent_id \notin DOMAIN categories
            /\ (response'.slug \in CategorySlugs =>
                   SlugHolders(categories, response'.slug, response'.id) = {}))
           => (response'.status = 404 /\ categories' = categories)
      ]_vars

(***************************************************************************)
(* Properties of the blog post service.                                    *)
(***************************************************************************)

\* the stored posts other than id that hold the slug
PostSlugHolders(ps, slug, id) ==
    {p \in DOMAIN ps \ {id} : ps[p].slug = slug}

\* C5 (as claimed): no two stored posts share a slug, whatever their
\* statuses; a create whose slug a stored post holds, and an update by the
\* author that changes the slug to one another post holds, fail with 409
\* and change nothing.
C5_PostSlugUnique ==
    [][ /\ \A a, b \in DOMAIN posts' :
              a # b => posts'[a].slug # posts'[b].slug
        /\ (/\ response'.op = "create_post"
            /\ PostSlugHolders(posts, response'.slug, NoneInt) # {})
           => (response'.status = 409 /\ posts' = posts)
        /\ (/\ response'.op = "update_post"
            /\ response'.id \in DOMAIN posts
            /\ response'.author_id = posts[response'.id].author_id
            /\ response'.slug # UnsetStr
            /\ PostSlugHolders(posts, response'.slug, response'.id) # {})
           => (response'.status = 409 /\ posts' = posts)
      ]_vars

C9_DeleteRemovesPost ==
    [][ (response'.op = "delete_post" /\ response'.status = 204)
        => /\ BlogPost_get_by_id(posts', response'.id) = NoneInt
           /\ response'.id \notin BlogPost_get_published(posts')
           /\ \A a \in RequestAuthorIds :
                  response'.id \notin BlogPost_get_drafts(posts', a)
           /\ ~BlogPost_slug_exists(posts', posts[response'.id].slug, NoneInt)
      ]_vars

C11_ClusterDeleteRemoves ==
    [][ (/\ response'.op = "delete_topic_cluster"
         /\ response'.id \in DOMAIN topic_clusters)
        => /\ response'.status = 204
           /\ TopicCluster_get_by_id(topic_clusters', response'.id) = NoneInt
      ]_vars

(***************************************************************************)
(* Properties of the user service.                                         *)
(***************************************************************************)

\* the stored users that hold the email
EmailHolders(us, email) ==
    {u \in DOMAIN us : us[u].email = email}

\* C12: no two stored users have the same email; a registration whose email
\* a stored user holds fails with 400 and stores nothing; a registration
\* that succeeds stores a user with that email and role admin, and every
\* stored user has role admin.
C12_EmailUnique ==
    [][ /\ \A a, b \in DOMAIN users' :
              a # b => users'[a].email # users'[b].email
        /\ (/\ response'.op = "create_user"
            /\ EmailHolders(users, response'.email) # {})
           => /\ response'.status = 400
              /\ users' = users
              /\ users_seq' = users_seq
        /\ (response'.op = "create_user" /\ response'.status = 201)
           => /\ response'.id \in DOMAIN users' \ DOMAIN users
              /\ users'[response'.id].email = response'.email
              /\ users'[response'.id].role = "admin"
        /\ \A u \in DOMAIN users' : users'[u].role = "admin"
      ]_vars

\* a registration has been refused for an email that a stored user holds,
\* while another user is stored too
C12_Witness ==
    /\ response.op = "create_user"
    /\ response.status = 400
    /\ EmailHolders(users, response.email) # {}
    /\ Cardinality(DOMAIN users) = 2

\* C13: login answers 200, with the user's id as token, exactly when a
\* stored user has the email, the password verifies against that user's
\* hash and the user is active; an unknown email and a password that does
\* not verify both give 401 with the same message, the latter also on an
\* inactive account; a password that verifies on an inactive account gives
\* 403.  Right after a registration, the password that verifies for the
\* new account is the registered one and no other.
C13_LoginOutcome ==
    [][ response'.op = "authenticate_user"
        => LET holders == EmailHolders(users, response'.email)
               verifies == \E u \in holders :
                   verify_password(response'.password, users[u].password)
               active == \E u \in holders : users[u].is_active
           IN /\ (response'.status = 200)
                 <=> (holders # {} /\ verifies /\ active)
              /\ response'.status = 200
                 => response'.access_token \in holders
              /\ (holders = {} \/ ~verifies)
                 => /\ response'.status = 401
                    /\ response'.detail = "Invalid email or password"
              /\ (holders # {} /\ verifies /\ ~active)
                 => response'.status = 403
              /\ (/\ response.op = "create_user"
                  /\ response.status = 201
                  /\ response.email = response'.email)
                 => (verifies <=> response'.password = response.password)
              /\ UNCHANGED users
      ]_vars

\* a login with a wrong password on an inactive account has been answered
\* 401
C13_Witness ==
    /\ response.op = "authenticate_user"
    /\ response.status = 401
    /\ \E u \in EmailHolders(users, response.email) :
           /\ ~users[u].is_active
           /\ ~verify_password(response.password, users[u].password)

(***************************************************************************)
(* Properties of the likes.                                                *)
(***************************************************************************)

\* the stored likes of a fingerprint on a target
LikesOf(lks, target, target_id, fingerprint_hash) ==
    {l \in DOMAIN lks : /\ lks[l][target] = target_id
                        /\ lks[l].fingerprint_hash = fingerprint_hash}

\* C14 (as claimed): in every reachable state there is at most one like per
\* (fingerprint_hash, post_id) and at most one per (fingerprint_hash,
\* comment_id).
C14_OneLikePerTarget ==
    \A fingerprint_hash \in Fingerprints :
        /\ \A post_id \in DOMAIN posts :
               Cardinality(LikesOf(likes, "post_id", post_id, fingerprint_hash)) <= 1
        /\ \A comment_id \in DOMAIN comments :
               Cardinality(LikesOf(likes, "comment_id", comment_id, fingerprint_hash)) <= 1

\* C15 (as claimed): delete_post_like / delete_comment_like of a target and
\* fingerprint removes the like when one exists, so that no like of that
\* fingerprint on that target is stored afterwards, and touches no other
\* like; when none exists it changes nothing; a second call leaves the
\* state that the first one left.
C15_UnlikeIdempotent ==
    [][ (response'.op = "Like_delete" /\ response'.status = 200)
        => LET mine == LikesOf(likes, response'.target, response'.target_id,
                               response'.fingerprint_hash)
           IN /\ LikesOf(likes', response'.target, response'.target_id,
                         response'.fingerprint_hash) = {}
              /\ DOMAIN likes' = DOMAIN likes \ mine
              /\ \A l \in DOMAIN likes' : likes'[l] = likes[l]
              /\ (mine = {} => likes' = likes)
      ]_vars

(***************************************************************************)
(* Properties of the comments.                                             *)
(***************************************************************************)

\* C16: every comment the public listing of a post returns is stored,
\* belongs to that post, is approved and has no parent; a comment created
\* without an approval flag is stored unapproved and is in no post's public
\* listing; and an unapproved comment becomes approved only by an update of
\* that comment that sets the flag.
C16_PublicListing ==
    [][ /\ response'.op = "Comment_get_by_post"
           => \A c \in response'.ids :
                  /\ c \in DOMAIN comments
                  /\ comments[c].post_id = response'.post_id
                  /\ comments[c].is_approved
                  /\ comments[c].parent_id = NoneInt
        /\ (/\ response'.op = "Comment_create"
            /\ response'.status = 201
            /\ "is_approved" \notin DOMAIN response'.data)
           => /\ ~comments'[response'.id].is_approved
              /\ \A post_id \in DOMAIN posts :
                     response'.id \notin Comment_get_by_post(comments', post_id)
        /\ \A c \in DOMAIN comments \cap DOMAIN comments' :
               (~comments[c].is_approved /\ comments'[c].is_approved)
               => /\ response'.op = "Comment_update"
                  /\ response'.id = c
                  /\ response'.is_approved
      ]_vars

\* the listing of a post has returned an approved comment and left out an
\* unapproved top-level comment of the same post
C16_Witness ==
    /\ response.op = "Comment_get_by_post"
    /\ response.ids # {}
    /\ \E c \in DOMAIN comments \ response.ids :
           /\ comments[c].post_id = response.post_id
           /\ comments[c].parent_id = NoneInt
           /\ ~comments[c].is_approved

(***************************************************************************)
(* Properties of requests in flight.                                       *)
(***************************************************************************)

\* C17: however concurrent create requests interleave, no two committed
\* categories share a slug; a create that passed the slug check and whose
\* slug another request has committed since is refused by the store, is
\* answered 500 and stores nothing; one whose slug is still free stores its
\* row and is answered 201.
C17_RaceCaughtByStore ==
    [][ /\ \A a, b \in DOMAIN categories' :
              a # b => categories'[a].slug # categories'[b].slug
        /\ \A r \in DOMAIN requests :
               (requests[r].pc = "commit" /\ requests'[r].pc # "commit")
               => IF SlugHolders(categories, requests[r].data.slug, NoneInt) # {}
                  THEN /\ requests'[r].status = 500
                       /\ categories' = categories
                  ELSE /\ requests'[r].status = 201
                       /\ SlugHolders(categories', requests[r].data.slug, NoneInt)
                              = {categories_seq'}
      ]_vars

\* two requests with the same slug have both passed the slug check; one
\* has been committed and the other refused by the store
C17_Witness ==
    \E r1, r2 \in DOMAIN requests :
        /\ r1 # r2
        /\ requests[r1].kind = "create_category"
        /\ requests[r2].kind = "create_category"
        /\ requests[r1].data.slug = requests[r2].data.slug
        /\ requests[r1].status = 201
        /\ requests[r2].status = 500
        /\ Cardinality(SlugHolders(categories, requests[r1].data.slug, NoneInt)) = 1

\* C18: a request that has opened a session eventually closes it, whether
\* its handler returned or raised, and no session of a completed request
\* is open.
C18_SessionReleased ==
    /\ [](\A r \in DOMAIN requests :
              requests[r].pc = "done" => r \notin sessions)
    /\ \A r \in RequestIds :
           (r \in sessions)
           ~> (r \in DOMAIN requests /\ requests[r].pc = "done" /\ r \notin sessions)

\* a request whose handler raised and one whose handler returned have both
\* completed, and no session is open
C18_Witness ==
    /\ sessions = {}
    /\ \E r1, r2 \in DOMAIN requests :
           /\ requests[r1].pc = "done" /\ requests[r1].status = 500
           /\ requests[r2].pc = "done" /\ requests[r2].status = 201

(***************************************************************************)
(* Properties of deletes across tables.                                    *)
(***************************************************************************)

\* the comments, likes and views that reference the post
CommentsOfPost(cms, post_id) ==
    {c \in DOMAIN cms : cms[c].post_id = post_id}

LikesOfPost(lks, post_id) ==
    {l \in DOMAIN lks : lks[l].post_id = post_id}

ViewsOfPost(vs, post_id) ==
    {v \in DOMAIN vs : vs[v].post_id = post_id}

\* C19 (as claimed): after a delete of a post has succeeded, no comment,
\* like or view that references the post is stored; and in every state
\* every comment, like and view references a stored post.
C19_PostDeleteCascades ==
    [][ /\ (response'.op = "delete_post" /\ response'.status = 204)
           => /\ CommentsOfPost(comments', response'.id) = {}
              /\ LikesOfPost(likes', response'.id) = {}
              /\ ViewsOfPost(post_views', response'.id) = {}
        /\ \A c \in DOMAIN comments' : comments'[c].post_id \in DOMAIN posts'
        /\ \A l \in DOMAIN likes' :
               likes'[l].post_id = NoneInt \/ likes'[l].post_id \in DOMAIN posts'
        /\ \A v \in DOMAIN post_views' : post_views'[v].post_id \in DOMAIN posts'
      ]_vars

\* C20 (as claimed): a delete of a category or of a topic cluster that has
\* succeeded deletes no post; every post that referenced the deleted row
\* is stored with that reference null and its other fields as they were,
\* every other post is unchanged, and no post references the deleted row.
C20_DeleteNullifiesReferences ==
    [][ /\ (response'.op = "delete_category" /\ response'.status = 200)
           => /\ DOMAIN posts' = DOMAIN posts
              /\ \A p \in DOMAIN posts :
                     /\ posts'[p].category_id # response'.id
                     /\ posts'[p] =
                            IF posts[p].category_id = response'.id
                            THEN [posts[p] EXCEPT !.category_id = NoneInt]
                            ELSE posts[p]
        /\ (response'.op = "delete_topic_cluster" /\ response'.status = 204)
           => /\ DOMAIN posts' = DOMAIN posts
              /\ \A p \in DOMAIN posts :
                     /\ posts'[p].topic_cluster_id # response'.id
                     /\ posts'[p] =
                            IF posts[p].topic_cluster_id = response'.id
                            THEN [posts[p] EXCEPT !.topic_cluster_id = NoneInt]
                            ELSE posts[p]
      ]_vars

(***************************************************************************)
(* Properties of reading back what was created.                            *)
(***************************************************************************)

\* the value a stored row must have for field f of the schema, given the
\* fields the request carried: the value carried, or null for a field left out
Submitted(data, f) ==
    IF f \in DOMAIN data /\ ~IsUnset(f, data[f])
    THEN data[f]
    ELSE (IF f \in IntFields THEN NoneInt ELSE NoneStr)

\* C21 (as claimed): a category, topic cluster or blog post that was created
\* successfully is stored with the value of every field the request
\* carried and with null for every optional field it left out, and a get by
\* the id of a stored category, cluster or post is answered with the
\* stored values.
C21_RoundTrip ==
    [][ /\ (response'.op = "create_category" /\ response'.status = 201)
           => LET row == categories'[response'.id]
                  data == response'.data
              IN /\ row.name = data.name
                 /\ row.slug = data.slug
                 /\ row.description = Submitted(data, "description")
                 /\ row.parent_id = Submitted(data, "parent_id")
        /\ (response'.op = "create_topic_cluster" /\ response'.status = 201)
           => LET row == topic_clusters'[response'.id]
                  data == response'.data
              IN /\ row.name = data.name
                 /\ row.slug = data.slug
                 /\ row.pillar_post_id = Submitted(data, "pillar_post_id")
        /\ (response'.op = "create_post" /\ response'.status = 201)
           => LET row == posts'[response'.id]
                  body == response'.body
              IN /\ row.slug = body.slug
                 /\ row.category_id = Submitted(body, "category_id")
                 /\ row.topic_cluster_id = Submitted(body, "topic_cluster_id")
                 /\ "content" \in DOMAIN body
                       => "content" \in DOMAIN row /\ row.content = body.content
        /\ (response'.op = "BlogPost_create" /\ response'.status = 201)
           => \A f \in DOMAIN response'.data :
                  posts'[response'.id][f] = response'.data[f]
        /\ (response'.op = "get_category" /\ response'.id \in DOMAIN categories)
           => /\ response'.status = 200
              /\ response'.body = categories[response'.id]
        /\ (response'.op = "get_topic_cluster"
               /\ response'.id \in DOMAIN topic_clusters)
           => /\ response'.status = 200
              /\ response'.body = topic_clusters[response'.id]
        /\ (response'.op = "get_post" /\ response'.id \in DOMAIN posts)
           => /\ response'.status = 200
              /\ response'.body = posts[response'.id]
      ]_vars

(***************************************************************************)
(* Properties of the category updates.                                     *)
(***************************************************************************)

\* the fields of CategoryUpdate that the request data did not set
UnsetFields(data) ==
    {f \in {"name", "slug", "description", "parent_id"} :
        f \notin DOMAIN data \/ IsUnset(f, data[f])}

C23_ByPillarPost ==
    response.op = "get_by_pillar_post"
        => /\ response.status = 200
           /\ response.ids =
                  {c \in DOMAIN topic_clusters :
                      topic_clusters[c].pillar_post_id = response.pillar_post_id}

(***************************************************************************)
(* Properties of the category hierarchy.                                   *)
(***************************************************************************)

\* the categories on the parent chain of category id, at most n steps up
RECURSIVE Ancestors(_, _, _)
Ancestors(cats, id, n) ==
    IF n = 0 \/ id \notin DOMAIN cats \/ cats[id].parent_id \notin DOMAIN cats
    THEN {}
    ELSE {cats[id].parent_id} \cup Ancestors(cats, cats[id].parent_id, n - 1)

\* the parent relation has a cycle through category id
OnCycle(cats, id) ==
    id \in Ancestors(cats, id, Cardinality(DOMAIN cats))

\* C24: an update_category of a stored category whose parent_id names a
\* stored category is never refused for its parent (no 404), the category
\* itself and its descendants included; when the request sets nothing but
\* parent_id it succeeds and the category has the new parent.
C24_NoCycleDetection ==
    [][ (/\ response'.op = "update_category"
         /\ response'.id \in DOMAIN categories
         /\ response'.data.parent_id \in DOMAIN categories)
           => /\ response'.status # 404
              /\ (response'.data.name = UnsetStr /\ response'.data.slug = UnsetStr)
                    => /\ response'.status = 200
                       /\ categories'[response'.id].parent_id
                              = response'.data.parent_id
      ]_vars

\* C24 witness: an update has just closed a cycle of two categories, each
\* the parent of the other.
C24_Witness ==
    /\ response.op = "update_category" /\ response.status = 200
    /\ response.id \in DOMAIN categories
    /\ categories[response.id].parent_id = response.data.parent_id
    /\ response.data.parent_id # response.id
    /\ OnCycle(categories, response.id)

\* C26: every stored category whose parent_id is not null has a stored
\* category as its parent.
C26_ParentIntegrity ==
    \A c \in DOMAIN categories :
        categories[c].parent_id # NoneInt
            => categories[c].parent_id \in DOMAIN categories

\* C26 witness: a delete was refused for a category that another stored
\* category has as its parent.
C26_Witness ==
    /\ response.op = "delete_category" /\ response.status = 400
    /\ \E c \in DOMAIN categories \ {response.id} :
           categories[c].parent_id = response.id

\* C27: a delete of a category that is its own parent is answered 400 and
\* removes nothing; no listing of the top-level categories contains a
\* category that is its own parent; and a category that is its own parent
\* stays stored as its own parent unless an update of that category has
\* succeeded.
C27_SelfParent ==
    [][ /\ (/\ response'.op = "delete_category"
            /\ response'.id \in DOMAIN categories
            /\ categories[response'.id].parent_id = response'.id)
           => /\ response'.status = 400
              /\ categories' = categories
        /\ response'.op = "list_categories"
           => \A c \in response'.ids : categories[c].parent_id # c
        /\ \A c \in DOMAIN categories :
               categories[c].parent_id = c
                   => \/ /\ c \in DOMAIN categories'
                         /\ categories'[c].parent_id = c
                      \/ /\ response'.op = "update_category"
                         /\ response'.id = c
                         /\ response'.status = 200
      ]_vars

\* C27 witness: a delete of a category that is its own parent, and has no
\* other child, was refused.
C27_Witness ==
    /\ response.op = "delete_category" /\ response.status = 400
    /\ response.id \in DOMAIN categories
    /\ categories[response.id].parent_id = response.id
    /\ response.subcategories = 1

(***************************************************************************)
(* Properties of the blog post updates.                                    *)
(***************************************************************************)

Written(req) ==
    IF req.kind = "update_category"
    THEN {f \in {"name", "slug", "parent_id"} : ~IsUnset(f, req.data[f])}
    ELSE {f \in DOMAIN BlogPostUpdate_model_dump(req.data) :
              ~IsNone(f, req.data[f])}

\* the table the request in flight updates
Target(req) ==
    IF req.kind = "update_category" THEN categories ELSE posts

\* C25: an update of a category or a post that has passed its checks is
\* committed whatever another update of the same row has committed since
\* the row was loaded, and every field it writes then holds its value
\* (stated for a row that is the only one of its table, so that no other
\* row's slug can refuse the commit).
C25_LastWriteWins ==
    [][ \A r \in DOMAIN requests :
            (/\ requests[r].pc = "update_commit"
             /\ requests'[r].pc # "update_commit"
             /\ DOMAIN Target(requests[r]) = {requests[r].data.id})
            => /\ requests'[r].status = 200
               /\ \A f \in Written(requests[r]) :
                      IF requests[r].kind = "update_category"
                      THEN categories'[requests[r].data.id][f]
                               = requests[r].data[f]
                      ELSE posts'[requests[r].data.id][f]
                               = requests[r].data[f]
      ]_vars

\* C30: whatever the interleaving of a delete_category with the creates and
\* updates that name the deleted category as parent, every stored
\* category's parent_id is null or the id of a stored category, and a
\* category whose delete was answered 200 is neither stored nor referenced.
C30_NoDanglingParent ==
    /\ \A c \in DOMAIN categories :
           categories[c].parent_id # NoneInt
               => categories[c].parent_id \in DOMAIN categories
    /\ \A r \in DOMAIN requests :
           (requests[r].kind = "delete_category" /\ requests[r].status = 200)
               => /\ requests[r].data.id \notin DOMAIN categories
                  /\ \A c \in DOMAIN categories :
                         categories[c].parent_id # requests[r].data.id

\* the parent has been deleted while a create or an update that names it,
\* and has passed every check on it, stands before its own commit
C30_Witness ==
    \E d, w \in DOMAIN requests :
        /\ requests[d].kind = "delete_category"
        /\ requests[d].status = 200
        /\ requests[w].kind \in {"create_category", "update_category"}
        /\ requests[w].data.parent_id = requests[d].data.id
        /\ requests[w].pc \in {"commit", "update_commit"}

====
